---------------------------- MODULE Spec2Model ----------------------------
(***************************************************************************)
(* The data-access layer of the instrumentation API: the upsert batch      *)
(* writer and the range-filtered reader of timeseries measurements, the    *)
(* association-set reconciler of plot configurations and the single-entity *)
(* lookups, over a relational database with transactions.                  *)
(*                                                                         *)
(* Identifiers (uuid.UUID) are strings, times (time.Time) and values are   *)
(* small integers.  A table is the set of its committed rows.  A           *)
(* transaction holds the committed rows it has superseded (del) and the    *)
(* row versions it has written (ins); it sees the committed rows minus del *)
(* plus ins, and a commit installs exactly that.  The database is          *)
(* PostgreSQL at its default isolation level (READ COMMITTED): a statement *)
(* sees what is committed when it runs, and a statement that writes a row  *)
(* another unfinished transaction has written waits until that transaction *)
(* has committed or rolled back.  A transaction that its call left open    *)
(* (neither committed nor rolled back) keeps the locks of its rows: they   *)
(* are collected in `held`, and a statement that needs one of them can     *)
(* only fail.                                                              *)
(*                                                                         *)
(* Every call of the storage (Begin, Prepare, Exec, Close, Commit, Query)  *)
(* either succeeds or returns an error, chosen freely: a constraint        *)
(* violation and a lost connection look the same to the code.  A call      *)
(* returns "ok" with a value, "error" with none, or "panic" when the Go    *)
(* run time aborts it.                                                     *)
(***************************************************************************)
EXTENDS Integers, Sequences, FiniteSets, TLC

\* ------------------------------------------------------------------ bounds
\* collections of a batch, points of a collection, points of a batch, and
\* identifiers of a desired association sequence
MaxCollections == 2
MaxItems == 2
MaxPoints == 2
MaxDesired == 2
\* members of a JSON object payload, elements of a JSON array payload
MaxMembers == 2
MaxElements == 2

\* ------------------------------------------------------------- value sets
Procs == {"h1", "h2"}

\* rows of table timeseries (its INSERT/DELETE are not part of this source tree);
\* measurements and associations are written for these series, a write for any
\* other series being one of the storage errors
timeseries == {"ts1", "ts2"}

Times == {1, 2}
Values == {1, 2}
WindowBounds == {0, 1, 2, 3}

BoundedSeq(S, n) == UNION {[1 .. k -> S] : k \in 0 .. n}

Range(s) == {s[i] : i \in 1 .. Len(s)}

\* ------------------------------------------------------------------- state
VARIABLES
    db,     \* db[t]: the committed rows of table t
    call,   \* call[p]: the data-access call handler p is executing, or what it returned
    reconciled, \* <<id, desired set>> of the UpdatePlotConfiguration that returned last, if it succeeded
    serial, \* TRUE when the requests are served one after the other
    held    \* the rows locked by the transactions that were left open

vars == <<db, call, reconciled, serial, held>>

Tables == {"timeseries_measurement", "plot_configuration", "plot_configuration_timeseries",
           "project", "instrument_note", "instrument_group", "profile_project_roles",
           "timeseries", "project_timeseries"}

Idle == [op |-> "idle"]
Nil == <<>>

NoWrites == [del |-> [t \in Tables |-> {}], ins |-> [t \in Tables |-> {}]]

NoLocks == [rows |-> {}, associations |-> {}, notes |-> {}]

\* ------------------------------------------------------------ transactions
\* the rows of table t a statement of transaction txn sees
View(d, txn, t) == (d[t] \ txn.del[t]) \cup txn.ins[t]

\* the transaction after one of its statements left `rows` visible in table t
Written(d, txn, t, rows) ==
    [del |-> [txn.del EXCEPT ![t] = d[t] \ rows],
     ins |-> [txn.ins EXCEPT ![t] = rows \ d[t]]]

\* tx.Commit(): the transaction's view becomes the committed state
Committed(d, txn) == [t \in Tables |-> View(d, txn, t)]

\* a rollback that installs what the transaction had written so far
RolledBack_installs(d, txn) == [t \in Tables |-> View(d, txn, t)]

\* tx.Rollback(): the committed state stays as it is
RolledBack(d, txn) == d

\* ------------------------------------------------- timeseries measurements
Measurement == [Time : Times, Value : Values]

\* the batches of exactly k collections (a ts.MeasurementCollection is a
\* TimeseriesID with its Items) that hold at most n points in all
RECURSIVE BatchesOf(_, _)
BatchesOf(k, n) ==
    IF k = 0 THEN {<<>>}
    ELSE UNION {{<<[TimeseriesID |-> t, Items |-> items]>> \o rest :
                    t \in timeseries, rest \in BatchesOf(k - 1, n - Len(items))} :
                items \in BoundedSeq(Measurement, IF n < MaxItems THEN n ELSE MaxItems)}

Batches == UNION {BatchesOf(k, MaxPoints) : k \in 0 .. MaxCollections}

\* the batches of requests served at the same time: one collection of series
\* "ts1" holding a point at time 1, alone or followed by any other point
RacingBatches ==
    {<<[TimeseriesID |-> "ts1", Items |-> <<m>> \o rest]>> :
        m \in {x \in Measurement : x.Time = 1},
        rest \in {<<>>} \cup [1 .. 1 -> Measurement]}

\* the position of the next point of mc at or after item m of collection c,
\* <<Len(mc) + 1, 1>> when the two loops are over
RECURSIVE NextPos(_, _, _)
NextPos(mc, c, m) ==
    IF c > Len(mc) THEN <<Len(mc) + 1, 1>>
    ELSE IF m > Len(mc[c].Items) THEN NextPos(mc, c + 1, 1)
    ELSE <<c, m>>

\* the statement with DO NOTHING in place of DO UPDATE
UpsertMeasurement_keepsOld(rows, tsid, time, value) ==
    LET conflict == {r \in rows : r.timeseries_id = tsid /\ r.time = time}
    IN  IF conflict = {}
        THEN rows \cup {[timeseries_id |-> tsid, time |-> time, value |-> value]}
        ELSE rows

\* the statement replacing the whole series by the new point
UpsertMeasurement_replacesSeries(rows, tsid, time, value) ==
    {r \in rows : r.timeseries_id # tsid}
        \cup {[timeseries_id |-> tsid, time |-> time, value |-> value]}

\* the statement without its ON CONFLICT clause, on a table without the constraint
UpsertMeasurement_appends(rows, tsid, time, value) ==
    rows \cup {[timeseries_id |-> tsid, time |-> time, value |-> value]}

\* INSERT INTO timeseries_measurement ... ON CONFLICT ON CONSTRAINT timeseries_unique_time
\* DO UPDATE SET value = EXCLUDED.value, on the rows the transaction sees
UpsertMeasurement(rows, tsid, time, value) ==
    LET conflict == {r \in rows : r.timeseries_id = tsid /\ r.time = time}
    IN  IF conflict = {}
        THEN rows \cup {[timeseries_id |-> tsid, time |-> time, value |-> value]}
        ELSE (rows \ conflict) \cup {[r EXCEPT !.value = value] : r \in conflict}

\* the call c has returned: its status ("ok", "error" or "panic"), the step it
\* returned at, the value returned and what has become of its transaction
Returned(c, status, at, value, txnState) ==
    [op |-> c.op, pc |-> "returned", status |-> status, at |-> at, req |-> c.req,
     value |-> value, pre |-> c.pre, txn |-> txnState, n |-> c.n, again |-> c.again]

\* handler p may take a request: when the requests are served one after the
\* other, one handler serves them all
Admitted(p) == call[p] = Idle /\ (serial => p = "h1")

\* the keys of the rows the unfinished upsert batch of handler q has written:
\* the rows its transaction holds locked
WrittenKeys(q) ==
    IF call[q].op = "CreateOrUpdateTimeseriesMeasurements" /\ call[q].pc # "returned"
    THEN LET done == [x \in 1 .. Len(call[q].req) |->
                         IF x < call[q].pos[1] THEN Len(call[q].req[x].Items)
                         ELSE IF x = call[q].pos[1] THEN call[q].pos[2] - 1
                         ELSE 0]
         IN  UNION {{<<call[q].req[x].TimeseriesID, call[q].req[x].Items[i].Time>> :
                        i \in 1 .. done[x]} : x \in 1 .. Len(call[q].req)}
    ELSE {}

\* the upsert of handler p under key k has to wait for another transaction
WaitsForKey(p, k) == \E q \in Procs \ {p} : k \in WrittenKeys(q)

\* the points unfinished transactions have written when handler p reads
Uncommitted(p) ==
    LET n == [q \in Procs |->
                 IF q # p /\ call[q].op = "CreateOrUpdateTimeseriesMeasurements"
                          /\ call[q].pc # "returned"
                 THEN call[q].n ELSE 0]
    IN  n["h1"] + n["h2"]

\* the caller takes what the call returned
Return(p) ==
    /\ call[p].op # "idle"
    /\ call[p].pc = "returned"
    /\ call' = [call EXCEPT ![p] = Idle]
    /\ UNCHANGED <<db, reconciled, serial, held>>

\* db.Begin() of CreateOrUpdateTimeseriesMeasurements
BeginCreateOrUpdateTimeseriesMeasurements(p) ==
    /\ Admitted(p)
    /\ \E mc \in (IF serial THEN Batches ELSE RacingBatches), ok \in BOOLEAN :
       LET c == [op |-> "CreateOrUpdateTimeseriesMeasurements", pc |-> "prepare",
                 req |-> mc, pos |-> NextPos(mc, 1, 1), txn |-> NoWrites, pre |-> db, n |-> 0,
                 again |-> FALSE]
       IN  call' = [call EXCEPT ![p] = IF ok THEN c ELSE Returned(c, "error", "begin", Nil, "none")]
    /\ UNCHANGED <<db, reconciled, serial, held>>

\* txn.Prepare(...) of the upsert statement
PrepareUpsert(p, ok) ==
    /\ call[p].op = "CreateOrUpdateTimeseriesMeasurements"
    /\ call[p].pc = "prepare"
    /\ IF ok
       THEN /\ call' = [call EXCEPT ![p].pc = "exec"]
            /\ db' = db
       ELSE /\ db' = RolledBack(db, call[p].txn)
            /\ call' = [call EXCEPT ![p] = Returned(call[p], "error", "prepare", Nil, "rolledback")]
    /\ UNCHANGED <<reconciled, serial, held>>

\* one turn of the two loops: stmt.Exec(c.TimeseriesID, m.Time, m.Value), which
\* waits while another transaction holds the row of its key
ExecUpsert(p, ok) ==
    /\ call[p].op = "CreateOrUpdateTimeseriesMeasurements"
    /\ call[p].pc = "exec"
    /\ call[p].pos[1] <= Len(call[p].req)
    /\ LET c == call[p].req[call[p].pos[1]]
           m == c.Items[call[p].pos[2]]
           rows == UpsertMeasurement(View(db, call[p].txn, "timeseries_measurement"),
                                     c.TimeseriesID, m.Time, m.Value)
       IN  IF ok
           THEN /\ ~WaitsForKey(p, <<c.TimeseriesID, m.Time>>)
                /\ call' = [call EXCEPT
                              ![p].txn = Written(db, call[p].txn, "timeseries_measurement", rows),
                              ![p].pos = NextPos(call[p].req, call[p].pos[1], call[p].pos[2] + 1),
                              ![p].n = @ + 1]
                /\ db' = db
           ELSE /\ db' = RolledBack(db, call[p].txn)
                /\ call' = [call EXCEPT ![p] = Returned(call[p], "error", "exec", Nil, "rolledback")]
    /\ UNCHANGED <<reconciled, serial, held>>

\* stmt.Close() after the loops
CloseUpsert(p, ok) ==
    /\ call[p].op = "CreateOrUpdateTimeseriesMeasurements"
    /\ call[p].pc = "exec"
    /\ call[p].pos[1] > Len(call[p].req)
    /\ IF ok
       THEN /\ call' = [call EXCEPT ![p].pc = "commit"]
            /\ db' = db
       ELSE /\ db' = RolledBack(db, call[p].txn)
            /\ call' = [call EXCEPT ![p] = Returned(call[p], "error", "close", Nil, "rolledback")]
    /\ UNCHANGED <<reconciled, serial, held>>

\* txn.Commit() and the return of the input collections
CommitUpsert(p, ok) ==
    /\ call[p].op = "CreateOrUpdateTimeseriesMeasurements"
    /\ call[p].pc = "commit"
    /\ IF ok
       THEN /\ db' = Committed(db, call[p].txn)
            /\ call' = [call EXCEPT ![p] = Returned(call[p], "ok", "return", call[p].req, "committed")]
       ELSE /\ db' = RolledBack(db, call[p].txn)
            /\ call' = [call EXCEPT ![p] = Returned(call[p], "error", "commit", Nil, "rolledback")]
    /\ UNCHANGED <<reconciled, serial, held>>

\* ORDER BY M.time (ascending)
RECURSIVE OrderByTimeDesc_ascending(_)
OrderByTimeDesc_ascending(rows) ==
    IF rows = {} THEN <<>>
    ELSE LET r == CHOOSE x \in rows : \A y \in rows : y.time >= x.time
         IN  <<r>> \o OrderByTimeDesc_ascending(rows \ {r})

\* ORDER BY M.time DESC
RECURSIVE OrderByTimeDesc(_)
OrderByTimeDesc(rows) ==
    IF rows = {} THEN <<>>
    ELSE LET r == CHOOSE x \in rows : \A y \in rows : y.time <= x.time
         IN  <<r>> \o OrderByTimeDesc(rows \ {r})

\* SELECT M.timeseries_id, M.time, M.value FROM timeseries_measurement M
\* INNER JOIN timeseries T ON T.id = M.timeseries_id
listTimeseriesMeasurementsSQL(d) ==
    {tm \in [T : timeseries, M : d.timeseries_measurement] : tm.T = tm.M.timeseries_id}

\* the window with an inclusive lower bound
SelectWindow_inclusive(d, timeseriesID, after, before) ==
    {tm.M : tm \in {x \in listTimeseriesMeasurementsSQL(d) :
                       x.T = timeseriesID /\ x.M.time >= after /\ x.M.time < before}}

\* ... WHERE T.id = $1 AND M.time > $2 AND M.time < $3
SelectWindow(d, timeseriesID, after, before) ==
    {tm.M : tm \in {x \in listTimeseriesMeasurementsSQL(d) :
                       x.T = timeseriesID /\ x.M.time > after /\ x.M.time < before}}

\* ListTimeseriesMeasurements: one db.Select outside any transaction, which
\* reads the committed rows
ListTimeseriesMeasurements(p) ==
    /\ Admitted(p)
    /\ \E timeseriesID \in (IF serial THEN timeseries \cup {"ts0"} ELSE {"ts1"}),
          after \in (IF serial THEN WindowBounds ELSE {0, 1}),
          before \in (IF serial THEN WindowBounds ELSE {3}), ok \in BOOLEAN :
       LET c == [op |-> "ListTimeseriesMeasurements",
                 req |-> [timeseriesID |-> timeseriesID, After |-> after, Before |-> before,
                          fault |-> ~ok],
                 pre |-> db, n |-> Uncommitted(p), again |-> FALSE]
           mc == [TimeseriesID |-> timeseriesID,
                  Items |-> OrderByTimeDesc(SelectWindow(db, timeseriesID, after, before))]
       IN  call' = [call EXCEPT ![p] = IF ok THEN Returned(c, "ok", "return", mc, "none")
                                            ELSE Returned(c, "error", "select", Nil, "none")]
    /\ UNCHANGED <<db, reconciled, serial, held>>

\* ------------------------------------------------------ plot configuration
\* the name an update gives: the stored plot configurations have name 1
Names == {2}
Profiles == {1, 2}
PlotConfigurationIDs == {"pc1", "pc2"}
ProjectIDs == {"p1", "p2"}

\* the PlotConfiguration a handler passes to UpdatePlotConfiguration
PlotConfiguration ==
    [ID : PlotConfigurationIDs, ProjectID : ProjectIDs, Name : Names, Updater : {2},
     TimeseriesID : BoundedSeq(timeseries, MaxDesired)]

\* the requests served at the same time: for plot configuration "pc1", named
\* under its own project "p1" or under "p2"
RacingPlotConfigurations ==
    [ID : {"pc1"}, ProjectID : ProjectIDs, Name : {2}, Updater : {2},
     TimeseriesID : {<<"ts1">>, <<"ts2">>}]

\* view v_plot_configuration: one row per plot configuration, with the
\* timeseries associated with it
v_plot_configuration(d) ==
    {[id |-> r.id, project_id |-> r.project_id, name |-> r.name, updater |-> r.updater,
      timeseries_id |-> {a.timeseries_id : a \in {x \in d.plot_configuration_timeseries :
                                                     x.plot_configuration_id = r.id}}] :
        r \in d.plot_configuration}

\* rows.Next()/rows.Scan() over the rows of a query: the slice of the rows read
RECURSIVE ScanRows(_)
ScanRows(rows) ==
    IF rows = {} THEN <<>>
    ELSE LET r == CHOOSE x \in rows : TRUE
         IN  <<r>> \o ScanRows(rows \ {r})

\* PlotConfigFactory: the slice of the rows read and no error, or, when a
\* rows.Scan fails, an empty slice and the error
PlotConfigFactory(rows, scanFails) ==
    IF scanFails /\ rows # {} THEN [pp |-> <<>>, ok |-> FALSE]
    ELSE [pp |-> ScanRows(rows), ok |-> TRUE]

\* what can go wrong in the storage under GetPlotConfiguration
QueryFaults == {"none", "query", "scan"}

\* GetPlotConfiguration: Queryx(... WHERE project_id = $1 AND id = $2), then
\* pp, err := PlotConfigFactory(rows) whose err is not looked at, then &pp[0]
GetPlotConfiguration(d, projectID, plotconfigID, fault) ==
    LET r == PlotConfigFactory({x \in v_plot_configuration(d) :
                                   x.project_id = projectID /\ x.id = plotconfigID},
                               fault = "scan")
    IN  IF fault = "query" THEN [status |-> "error", at |-> "query", value |-> Nil]
        ELSE IF Len(r.pp) = 0 THEN [status |-> "panic", at |-> "index", value |-> Nil]
        ELSE [status |-> "ok", at |-> "return", value |-> r.pp[1]]

\* UPDATE plot_configuration SET name = $3, updater = $4, update_date = $5
\* WHERE project_id = $1 AND id = $2
UpdatePlotConfigurationRow(rows, pc) ==
    {IF r.project_id = pc.ProjectID /\ r.id = pc.ID
        THEN [r EXCEPT !.name = pc.Name, !.updater = pc.Updater]
        ELSE r : r \in rows}

\* the delete without its NOT IN: every association of the plot configuration goes
DeleteNotIn_all(rows, id, tsids) ==
    {r \in rows : r.plot_configuration_id # id}

\* the delete that removes nothing
DeleteNotIn_none(rows, id, tsids) == rows

\* DELETE FROM plot_configuration_timeseries
\* WHERE plot_configuration_id = ? AND timeseries_id NOT IN (?)
DeleteNotIn(rows, id, tsids) ==
    {r \in rows : ~(r.plot_configuration_id = id /\ r.timeseries_id \notin Range(tsids))}

\* INSERT INTO plot_configuration_timeseries ... ON CONFLICT ON CONSTRAINT
\* plot_configuration_unique_timeseries DO NOTHING
InsertAssociation(rows, id, tsid) ==
    IF \E r \in rows : r.plot_configuration_id = id /\ r.timeseries_id = tsid
    THEN rows
    ELSE rows \cup {[plot_configuration_id |-> id, timeseries_id |-> tsid]}

\* sqlx.In(query, pc.ID, pc.TimeseriesID): an empty slice is an error
SqlxIn(tsids) == Len(tsids) > 0

IsUpdate(p, pc) == call[p].op = "UpdatePlotConfiguration" /\ call[p].pc = pc

\* handler q is inside UpdatePlotConfiguration with its transaction
\* unfinished (the locks of a transaction that a call left open when it
\* returned are in `held`)
Unfinished(q) ==
    /\ call[q].op = "UpdatePlotConfiguration"
    /\ call[q].pc \notin {"get", "returned"}

\* the plot_configuration rows the running transaction of q has updated
UpdatedRows(q) ==
    IF Unfinished(q) /\ call[q].pc \in {"exec2", "exec3", "commit"}
    THEN {r \in db.plot_configuration :
             r.project_id = call[q].req.ProjectID /\ r.id = call[q].req.ID}
    ELSE {}

\* the association rows the running transaction of q has deleted or inserted
WrittenAssociations(q) ==
    IF Unfinished(q)
    THEN call[q].txn.del.plot_configuration_timeseries
            \cup call[q].txn.ins.plot_configuration_timeseries
    ELSE {}

\* a statement of handler p that writes `rows` of plot_configuration has to
\* wait for another transaction, running or left open
WaitsForRows(p, rows) ==
    \/ \E q \in Procs \ {p} : rows \cap UpdatedRows(q) # {}
    \/ \E r \in rows : r.id \in held.rows

\* a statement of handler p that deletes or inserts the association `rows` has
\* to wait for another transaction, running or left open
WaitsForAssociations(p, rows) ==
    \/ \E q \in Procs \ {p} : rows \cap WrittenAssociations(q) # {}
    \/ rows \cap held.associations # {}

\* the foreign key of plot_configuration_timeseries: an association can be
\* inserted for a stored plot configuration only
References(rows, id) == \E r \in rows : r.id = id

\* the call returns at step `at` with an error, its transaction rolled back
\* (rollback = TRUE) or left as it is: open, with the locks of its rows
Failed(p, at, rollback) ==
    /\ db' = IF rollback THEN RolledBack(db, call[p].txn) ELSE db
    /\ held' = IF rollback THEN held
               ELSE [held EXCEPT !.rows = @ \cup {r.id : r \in UpdatedRows(p)},
                                 !.associations = @ \cup WrittenAssociations(p)]
    /\ call' = [call EXCEPT ![p] = Returned(call[p], "error", at, Nil,
                                            IF rollback THEN "rolledback" ELSE "open")]
    /\ reconciled' = <<>>

\* the step succeeded: on to the next one
Goto(p, pc) ==
    /\ call' = [call EXCEPT ![p].pc = pc]
    /\ UNCHANGED <<db, reconciled, held>>

\* db.Beginx() of UpdatePlotConfiguration
BeginUpdatePlotConfiguration(p) ==
    /\ Admitted(p)
    /\ \E pc \in (IF serial THEN PlotConfiguration ELSE RacingPlotConfigurations),
          ok \in BOOLEAN :
       LET c == [op |-> "UpdatePlotConfiguration", pc |-> "prepare1", req |-> pc, i |-> 1,
                 txn |-> NoWrites, pre |-> db, n |-> [deleted |-> 0, inserted |-> 0],
                 again |-> reconciled = <<pc.ID, Range(pc.TimeseriesID)>>]
       IN  IF ok
           THEN /\ call' = [call EXCEPT ![p] = c]
                /\ reconciled' = reconciled
           ELSE /\ call' = [call EXCEPT ![p] = Returned(c, "error", "begin", Nil, "none")]
                /\ reconciled' = <<>>
    /\ UNCHANGED <<db, serial, held>>

\* stmt1: tx.Preparex of the UPDATE
PrepareUpdate(p) ==
    /\ IsUpdate(p, "prepare1")
    /\ \E ok \in BOOLEAN : IF ok THEN Goto(p, "in") ELSE Failed(p, "prepare1", TRUE)
    /\ UNCHANGED serial

\* sqlx.In of the DELETE ... NOT IN (?)
BuildDeleteNotIn(p) ==
    /\ IsUpdate(p, "in")
    /\ IF SqlxIn(call[p].req.TimeseriesID) THEN Goto(p, "prepare2") ELSE Failed(p, "in", TRUE)
    /\ UNCHANGED serial

\* stmt2: tx.Preparex(tx.Rebind(query))
PrepareDelete(p) ==
    /\ IsUpdate(p, "prepare2")
    /\ \E ok \in BOOLEAN : IF ok THEN Goto(p, "prepare3") ELSE Failed(p, "prepare2", TRUE)
    /\ UNCHANGED serial

\* stmt3: tx.Preparex of the INSERT; its error path returns without tx.Rollback()
PrepareInsert(p) ==
    /\ IsUpdate(p, "prepare3")
    /\ \E ok \in BOOLEAN : IF ok THEN Goto(p, "exec1") ELSE Failed(p, "prepare3", FALSE)
    /\ UNCHANGED serial

\* stmt1.Exec(pc.ProjectID, pc.ID, pc.Name, pc.Updater, pc.UpdateDate)
ExecUpdate(p) ==
    /\ IsUpdate(p, "exec1")
    /\ \E ok \in BOOLEAN :
       IF ok
       THEN /\ ~WaitsForRows(p, {r \in db.plot_configuration :
                                    r.project_id = call[p].req.ProjectID /\ r.id = call[p].req.ID})
            /\ call' = [call EXCEPT
                          ![p].txn = Written(db, @, "plot_configuration",
                                             UpdatePlotConfigurationRow(
                                                View(db, @, "plot_configuration"), call[p].req)),
                          ![p].pc = "exec2"]
            /\ UNCHANGED <<db, reconciled, held>>
       ELSE Failed(p, "exec1", TRUE)
    /\ UNCHANGED serial

\* stmt2.Exec(args...)
ExecDelete(p) ==
    /\ IsUpdate(p, "exec2")
    /\ \E ok \in BOOLEAN :
       IF ok
       THEN LET seen == View(db, call[p].txn, "plot_configuration_timeseries")
                rows == DeleteNotIn(seen, call[p].req.ID, call[p].req.TimeseriesID)
            IN  /\ ~WaitsForAssociations(p, seen \ rows)
                /\ call' = [call EXCEPT
                              ![p].txn = Written(db, @, "plot_configuration_timeseries", rows),
                              ![p].n.deleted = Cardinality(seen \ rows),
                              ![p].pc = "exec3"]
                /\ UNCHANGED <<db, reconciled, held>>
       ELSE Failed(p, "exec2", TRUE)
    /\ UNCHANGED serial

\* one turn of the loop: stmt3.Exec(pc.ID, tsid)
ExecInsert(p) ==
    /\ IsUpdate(p, "exec3")
    /\ call[p].i <= Len(call[p].req.TimeseriesID)
    /\ \E ok \in BOOLEAN :
       IF ok
       THEN LET seen == View(db, call[p].txn, "plot_configuration_timeseries")
                rows == InsertAssociation(seen, call[p].req.ID, call[p].req.TimeseriesID[call[p].i])
            IN  /\ References(View(db, call[p].txn, "plot_configuration"), call[p].req.ID)
                /\ ~WaitsForAssociations(p, {[plot_configuration_id |-> call[p].req.ID,
                                              timeseries_id |-> call[p].req.TimeseriesID[call[p].i]]})
                /\ call' = [call EXCEPT
                              ![p].txn = Written(db, @, "plot_configuration_timeseries", rows),
                              ![p].n.inserted = @ + Cardinality(rows \ seen),
                              ![p].i = @ + 1]
                /\ UNCHANGED <<db, reconciled, held>>
       ELSE Failed(p, "exec3", TRUE)
    /\ UNCHANGED serial

\* stmt1.Close(), stmt2.Close(), stmt3.Close(): the first that fails returns its
\* error without tx.Rollback()
CloseStatements(p) ==
    /\ IsUpdate(p, "exec3")
    /\ call[p].i > Len(call[p].req.TimeseriesID)
    /\ \E failing \in {"none", "close1", "close2", "close3"} :
       IF failing = "none" THEN Goto(p, "commit") ELSE Failed(p, failing, FALSE)
    /\ UNCHANGED serial

\* tx.Commit()
CommitUpdate(p) ==
    /\ IsUpdate(p, "commit")
    /\ \E ok \in BOOLEAN :
       IF ok
       THEN /\ db' = Committed(db, call[p].txn)
            /\ call' = [call EXCEPT ![p].pc = "get"]
            /\ UNCHANGED <<reconciled, held>>
       ELSE Failed(p, "commit", TRUE)
    /\ UNCHANGED serial

\* return GetPlotConfiguration(db, &pc.ProjectID, &pc.ID)
RereadPlotConfiguration(p) ==
    /\ IsUpdate(p, "get")
    /\ \E fault \in QueryFaults :
       LET r == GetPlotConfiguration(db, call[p].req.ProjectID, call[p].req.ID, fault)
       IN  /\ call' = [call EXCEPT ![p] = Returned(call[p], r.status,
                                                   IF r.status = "ok" THEN "return" ELSE "get",
                                                   r.value, "committed")]
           /\ reconciled' = IF r.status = "ok"
                            THEN <<call[p].req.ID, Range(call[p].req.TimeseriesID)>>
                            ELSE <<>>
    /\ UNCHANGED <<db, serial, held>>

\* DELETE from plot_configuration WHERE project_id = $1 AND id = $2
DeletePlotConfigurationRow(rows, projectID, plotConfigID) ==
    {r \in rows : ~(r.project_id = projectID /\ r.id = plotConfigID)}

\* ON DELETE CASCADE of plot_configuration_timeseries: the associations of
\* the plot configurations that are no longer stored go with them
Cascaded(associations, rows) ==
    {a \in associations : References(rows, a.plot_configuration_id)}

\* the DELETE of handler p has to wait: a transaction that is unfinished or
\* was left open has updated the row or has written associations of it
WaitsForDelete(p, gone) ==
    \/ WaitsForRows(p, gone)
    \/ \E r \in gone :
          \/ \E a \in held.associations : a.plot_configuration_id = r.id
          \/ \E q \in Procs \ {p} :
                \E a \in WrittenAssociations(q) : a.plot_configuration_id = r.id

\* DeletePlotConfiguration: one db.Exec, its error returned
DeletePlotConfiguration(p) ==
    /\ Admitted(p)
    /\ \E projectID \in (IF serial THEN ProjectIDs ELSE {"p1"}),
          id \in (IF serial THEN PlotConfigurationIDs ELSE {"pc1"}), fault \in BOOLEAN :
       LET c == [op |-> "DeletePlotConfiguration",
                 req |-> [projectID |-> projectID, id |-> id, fault |-> fault],
                 pre |-> db, n |-> 0, again |-> FALSE]
           rows == DeletePlotConfigurationRow(db.plot_configuration, projectID, id)
       IN  IF fault
           THEN /\ call' = [call EXCEPT ![p] = Returned(c, "error", "exec", Nil, "none")]
                /\ db' = db
           ELSE /\ ~WaitsForDelete(p, db.plot_configuration \ rows)
                /\ call' = [call EXCEPT ![p] = Returned(c, "ok", "return", Nil, "none")]
                /\ db' = [db EXCEPT !.plot_configuration = rows,
                                    !.plot_configuration_timeseries = Cascaded(@, rows)]
    /\ reconciled' = <<>>
    /\ UNCHANGED <<serial, held>>

\* ---------------------------------------------------- single-entity lookups
\* view v_project: one row per project
v_project(d) == d.project

\* rows.Next()/rows.Scan() over the rows of a query: the slice of the rows read
RECURSIVE ProjectFactory(_)
ProjectFactory(rows) ==
    IF rows = {} THEN <<>>
    ELSE LET r == CHOOSE x \in rows : TRUE
         IN  <<r>> \o ProjectFactory(rows \ {r})

\* GetProject: Queryx(listProjectsSQL + " WHERE id = $1"), ProjectFactory, then &pp[0]
GetProject(d, id, fault) ==
    LET pp == ProjectFactory({r \in v_project(d) : r.id = id})
    IN  IF fault THEN [status |-> "error", at |-> "query", value |-> Nil]
        ELSE IF Len(pp) = 0 THEN [status |-> "panic", at |-> "index", value |-> Nil]
        ELSE [status |-> "ok", at |-> "return", value |-> pp[1]]

\* GetInstrumentNote: db.Get(&n, ... WHERE N.id = $1), which is an error when
\* the query has no row
GetInstrumentNote(d, id, fault) ==
    LET rows == {r \in d.instrument_note : r.id = id}
    IN  IF fault THEN [status |-> "error", at |-> "query", value |-> Nil]
        ELSE IF rows = {} THEN [status |-> "error", at |-> "norows", value |-> Nil]
        ELSE [status |-> "ok", at |-> "return", value |-> CHOOSE r \in rows : TRUE]

\* the lookup `op` called with `req` has returned r
Looked(op, req, r) ==
    Returned([op |-> op, req |-> req, pre |-> db, n |-> 0, again |-> FALSE],
             r.status, r.at, r.value, "none")

\* a handler calls GetProject
CallGetProject(p) ==
    /\ Admitted(p)
    /\ \E id \in ProjectIDs \cup {"p0"}, fault \in BOOLEAN :
          call' = [call EXCEPT ![p] = Looked("GetProject", [id |-> id, fault |-> fault],
                                             GetProject(db, id, fault))]
    /\ UNCHANGED <<db, reconciled, serial, held>>

\* a handler calls GetPlotConfiguration
CallGetPlotConfiguration(p) ==
    /\ Admitted(p)
    /\ \E projectID \in ProjectIDs, id \in PlotConfigurationIDs \cup {"pc0"}, fault \in QueryFaults :
          call' = [call EXCEPT ![p] =
                      Looked("GetPlotConfiguration",
                             [projectID |-> projectID, id |-> id, fault |-> fault],
                             GetPlotConfiguration(db, projectID, id, fault))]
    /\ UNCHANGED <<db, reconciled, serial, held>>

\* a handler calls GetInstrumentNote
CallGetInstrumentNote(p) ==
    /\ Admitted(p)
    /\ \E id \in {"n1", "n0"}, fault \in BOOLEAN :
          call' = [call EXCEPT ![p] = Looked("GetInstrumentNote", [id |-> id, fault |-> fault],
                                             GetInstrumentNote(db, id, fault))]
    /\ UNCHANGED <<db, reconciled, serial, held>>

\* ------------------------------------------- creating a plot configuration
\* the PlotConfiguration a handler passes to CreatePlotConfiguration: with no
\* timeseries, one, two, or one named twice
NewPlotConfigurations ==
    [ProjectID : {"p1"}, Name : {1},
     TimeseriesID : {<<>>, <<"ts1">>, <<"ts1", "ts2">>, <<"ts1", "ts1">>}]

IsCreatePlot(p, pc) == call[p].op = "CreatePlotConfiguration" /\ call[p].pc = pc

\* tx.Rollback(); return nil, err
RolledBackCreatePlot(p, at) ==
    /\ db' = RolledBack(db, call[p].txn)
    /\ call' = [call EXCEPT ![p] = Returned(call[p], "error", at, Nil, "rolledback")]
    /\ UNCHANGED <<reconciled, serial, held>>

\* a call on a nil statement: the panic leaves the function with its
\* transaction neither committed nor rolled back
PanickedCreatePlot(p, at) ==
    /\ call' = [call EXCEPT ![p] = Returned(call[p], "panic", at, Nil, "open")]
    /\ UNCHANGED <<db, reconciled, serial, held>>

\* db.Beginx() of CreatePlotConfiguration; the database generates "pc3" for
\* the new row
BeginCreatePlotConfiguration(p) ==
    /\ Admitted(p)
    /\ \A r \in db.plot_configuration : r.id # "pc3"
    /\ \E pc \in NewPlotConfigurations, ok \in BOOLEAN :
       LET c == [op |-> "CreatePlotConfiguration", pc |-> "prepare", req |-> pc, i |-> 1,
                 pcID |-> "", stmt1 |-> FALSE, stmt2 |-> FALSE,
                 txn |-> NoWrites, pre |-> db, n |-> 0, again |-> FALSE]
       IN  call' = [call EXCEPT ![p] =
                       IF ok THEN c ELSE Returned(c, "error", "begin", Nil, "none")]
    /\ UNCHANGED <<db, reconciled, serial, held>>

\* stmt1, err := tx.Preparex(...); stmt2, err := tx.Preparex(...): neither
\* err is looked at, a statement whose Preparex failed is nil
PreparePlotInserts(p) ==
    /\ IsCreatePlot(p, "prepare")
    /\ \E ok1 \in BOOLEAN, ok2 \in BOOLEAN :
          call' = [call EXCEPT ![p].stmt1 = ok1, ![p].stmt2 = ok2, ![p].pc = "get"]
    /\ UNCHANGED <<db, reconciled, serial, held>>

\* INSERT INTO plot_configuration (slug, name, project_id, creator, create_date)
\* ... RETURNING id: the new row has no updater
InsertPlotConfiguration(rows, id, pc) ==
    rows \cup {[id |-> id, project_id |-> pc.ProjectID, name |-> pc.Name, updater |-> 0]}

\* stmt1.Get(&pcID, ...)
GetNewPlotConfiguration(p) ==
    /\ IsCreatePlot(p, "get")
    /\ IF ~call[p].stmt1 THEN PanickedCreatePlot(p, "get")
       ELSE \E ok \in BOOLEAN :
              IF ok
              THEN LET seen == View(db, call[p].txn, "plot_configuration")
                   IN  /\ call' = [call EXCEPT
                                     ![p].txn = Written(db, @, "plot_configuration",
                                                        InsertPlotConfiguration(seen, "pc3",
                                                                                call[p].req)),
                                     ![p].pcID = "pc3",
                                     ![p].n = @ + 1,
                                     ![p].pc = "exec"]
                       /\ UNCHANGED <<db, reconciled, serial, held>>
              ELSE RolledBackCreatePlot(p, "get")

\* one turn of the loop: stmt2.Exec(&pcID, &tsid), an INSERT without ON
\* CONFLICT, so a timeseries named twice violates the unique constraint
ExecNewAssociation(p) ==
    /\ IsCreatePlot(p, "exec")
    /\ call[p].i <= Len(call[p].req.TimeseriesID)
    /\ IF ~call[p].stmt2 THEN PanickedCreatePlot(p, "exec")
       ELSE \E ok \in BOOLEAN :
              LET seen == View(db, call[p].txn, "plot_configuration_timeseries")
                  row == [plot_configuration_id |-> call[p].pcID,
                          timeseries_id |-> call[p].req.TimeseriesID[call[p].i]]
              IN  IF ok /\ row \notin seen
                  THEN /\ call' = [call EXCEPT
                                     ![p].txn = Written(db, @, "plot_configuration_timeseries",
                                                        seen \cup {row}),
                                     ![p].n = @ + 1,
                                     ![p].i = @ + 1]
                       /\ UNCHANGED <<db, reconciled, serial, held>>
                  ELSE RolledBackCreatePlot(p, "exec")

\* stmt1.Close(), then stmt2.Close()
ClosePlotInserts(p) ==
    /\ IsCreatePlot(p, "exec")
    /\ call[p].i > Len(call[p].req.TimeseriesID)
    /\ \E ok1 \in BOOLEAN, ok2 \in BOOLEAN :
          IF ~ok1 THEN RolledBackCreatePlot(p, "close1")
          ELSE IF ~call[p].stmt2 THEN PanickedCreatePlot(p, "close2")
          ELSE IF ~ok2 THEN RolledBackCreatePlot(p, "close2")
          ELSE /\ call' = [call EXCEPT ![p].pc = "commit"]
               /\ UNCHANGED <<db, reconciled, serial, held>>

\* tx.Commit(); a Commit that fails has ended the transaction without
\* installing it, and the tx.Rollback() after it does nothing
CommitCreatePlot(p) ==
    /\ IsCreatePlot(p, "commit")
    /\ \E ok \in BOOLEAN :
       IF ok
       THEN /\ db' = Committed(db, call[p].txn)
            /\ call' = [call EXCEPT ![p].pc = "reread"]
            /\ UNCHANGED <<reconciled, serial, held>>
       ELSE /\ call' = [call EXCEPT ![p] =
                           Returned(call[p], "error", "commit", Nil, "rolledback")]
            /\ UNCHANGED <<db, reconciled, serial, held>>

\* return GetPlotConfiguration(db, &pc.ProjectID, &pcID)
RereadNewPlotConfiguration(p) ==
    /\ IsCreatePlot(p, "reread")
    /\ \E fault \in QueryFaults :
       LET r == GetPlotConfiguration(db, call[p].req.ProjectID, call[p].pcID, fault)
       IN  call' = [call EXCEPT ![p] =
                       Returned(call[p], r.status,
                                IF r.status = "ok" THEN "return" ELSE "reread",
                                r.value, "committed")]
    /\ UNCHANGED <<db, reconciled, serial, held>>

\* ---------------------------------------- projects and instrument groups
\* CreateProjectBulk and CreateInstrumentGroup have the same statements, over
\* table project and over table instrument_group
BulkTable(op) == IF op = "CreateProjectBulk" THEN "project" ELSE "instrument_group"

\* the identifiers the database generates for new rows, in this order
GeneratedIDs(op) == IF op = "CreateProjectBulk" THEN <<"p3", "p4">> ELSE <<"g1", "g2">>

\* the first generated identifier no row of `rows` carries, "" when all are used
NextID(op, rows) ==
    LET ids == GeneratedIDs(op)
        free == {i \in 1 .. Len(ids) : \A r \in rows : r.id # ids[i]}
    IN  IF free = {} THEN ""
        ELSE ids[CHOOSE i \in free : \A j \in free : i <= j]

\* the batches of projects (or groups) to create: their names
NewBatches(op) == BoundedSeq(IF op = "CreateProjectBulk" THEN {"a", "b"} ELSE {"a"}, 2)

IsBulkCreate(p, pc) ==
    call[p].op \in {"CreateProjectBulk", "CreateInstrumentGroup"} /\ call[p].pc = pc

\* an error return of CreateProjectBulk: none of them calls txn.Rollback()
FailedBulkCreate(p, at, txnState) ==
    /\ call' = [call EXCEPT ![p] = Returned(call[p], "error", at, <<>>, txnState)]
    /\ UNCHANGED <<db, reconciled, serial, held>>

\* db.Beginx() of CreateProjectBulk (op = "CreateProjectBulk") or of
\* CreateInstrumentGroup; the database has identifiers left for the batch
BeginBulkCreate(p, op) ==
    /\ Admitted(p)
    /\ \E projects \in NewBatches(op), ok \in BOOLEAN :
       LET c == [op |-> op, pc |-> "prepare", req |-> projects, i |-> 1, out |-> <<>>,
                 txn |-> NoWrites, pre |-> db, n |-> 0, again |-> FALSE]
       IN  /\ Cardinality({r \in db[BulkTable(op)] :
                              \E i \in 1 .. 2 : r.id = GeneratedIDs(op)[i]}) + Len(projects) <= 2
           /\ call' = [call EXCEPT ![p] =
                          IF ok THEN c ELSE Returned(c, "error", "begin", <<>>, "none")]
    /\ UNCHANGED <<db, reconciled, serial, held>>

\* txn.Preparex of the INSERT ... RETURNING
PrepareBulkInsert(p) ==
    /\ IsBulkCreate(p, "prepare")
    /\ \E ok \in BOOLEAN :
       IF ok THEN /\ call' = [call EXCEPT ![p].pc = "get"]
                  /\ UNCHANGED <<db, reconciled, serial, held>>
       ELSE FailedBulkCreate(p, "prepare", "open")

\* INSERT INTO project (federal_id, slug, name, creator, create_date) ...
\* RETURNING id, slug: the new row gets a generated id and is not deleted
InsertProject(rows, id, name) == rows \cup {[id |-> id, name |-> name, deleted |-> FALSE]}

\* one turn of the loop: stmt1.Get(&pp[idx], ...)
GetBulkInsert(p) ==
    /\ IsBulkCreate(p, "get")
    /\ call[p].i <= Len(call[p].req)
    /\ \E ok \in BOOLEAN :
       LET t == BulkTable(call[p].op)
           seen == View(db, call[p].txn, t)
           id == NextID(call[p].op, seen)
       IN  IF ok
           THEN /\ call' = [call EXCEPT
                              ![p].txn = Written(db, @, t,
                                                 InsertProject(seen, id, call[p].req[call[p].i])),
                              ![p].out = Append(@, id),
                              ![p].i = @ + 1,
                              ![p].n = @ + 1]
                /\ UNCHANGED <<db, reconciled, serial, held>>
           ELSE FailedBulkCreate(p, "get", "open")

\* stmt1.Close()
CloseBulkInsert(p) ==
    /\ IsBulkCreate(p, "get")
    /\ call[p].i > Len(call[p].req)
    /\ \E ok \in BOOLEAN :
       IF ok THEN /\ call' = [call EXCEPT ![p].pc = "commit"]
                  /\ UNCHANGED <<db, reconciled, serial, held>>
       ELSE FailedBulkCreate(p, "close", "open")

\* txn.Commit() and the return of pp: a Commit that fails has ended the
\* transaction without installing it
CommitBulkCreate(p) ==
    /\ IsBulkCreate(p, "commit")
    /\ \E ok \in BOOLEAN :
       IF ok
       THEN /\ db' = Committed(db, call[p].txn)
            /\ call' = [call EXCEPT ![p] =
                           Returned(call[p], "ok", "return", call[p].out, "committed")]
            /\ UNCHANGED <<reconciled, serial, held>>
       ELSE FailedBulkCreate(p, "commit", "rolledback")

\* an UPDATE that also clears the deleted flag
UpdateProjectRow_undeletes(rows, id, name) ==
    {IF r.id = id THEN [r EXCEPT !.name = name, !.deleted = FALSE] ELSE r : r \in rows}

\* UPDATE project SET name=$2, updater=$3, ... WHERE id=$1
UpdateProjectRow(rows, id, name) ==
    {IF r.id = id THEN [r EXCEPT !.name = name] ELSE r : r \in rows}

\* UpdateProject up to the return of db.Exec: the UPDATE is its own
\* transaction, the reread of the project follows as another statement
UpdateProject(p) ==
    /\ Admitted(p)
    /\ \E id \in ProjectIDs \cup {"p3", "p0"}, name \in {"a", "b"}, fault \in BOOLEAN :
       LET c == [op |-> "UpdateProject", pc |-> "get", req |-> [id |-> id, name |-> name],
                 pre |-> db, n |-> 0, again |-> FALSE]
       IN  IF fault
           THEN /\ call' = [call EXCEPT ![p] = Returned(c, "error", "exec", Nil, "none")]
                /\ db' = db
           ELSE /\ call' = [call EXCEPT ![p] = c]
                /\ db' = [db EXCEPT !.project = UpdateProjectRow(@, id, name)]
    /\ UNCHANGED <<reconciled, serial, held>>

\* return GetProject(db, p.ID)
RereadProject(p) ==
    /\ call[p].op = "UpdateProject"
    /\ call[p].pc = "get"
    /\ \E fault \in BOOLEAN :
       LET r == GetProject(db, call[p].req.id, fault)
       IN  call' = [call EXCEPT ![p] = Returned(call[p], r.status, r.at, r.value, "none")]
    /\ UNCHANGED <<db, reconciled, serial, held>>

\* UPDATE project SET deleted=true WHERE id=$1
DeleteFlagProjectRow(rows, id) ==
    {IF r.id = id THEN [r EXCEPT !.deleted = TRUE] ELSE r : r \in rows}

\* DeleteFlagProject
DeleteFlagProject(p) ==
    /\ Admitted(p)
    /\ \E id \in ProjectIDs \cup {"p3", "p0"}, fault \in BOOLEAN :
       LET c == [op |-> "DeleteFlagProject", req |-> [id |-> id], pre |-> db,
                 n |-> 0, again |-> FALSE]
       IN  IF fault
           THEN /\ call' = [call EXCEPT ![p] = Returned(c, "error", "exec", Nil, "none")]
                /\ db' = db
           ELSE /\ call' = [call EXCEPT ![p] = Returned(c, "ok", "return", Nil, "none")]
                /\ db' = [db EXCEPT !.project = DeleteFlagProjectRow(db.project, id)]
    /\ UNCHANGED <<reconciled, serial, held>>

\* UPDATE instrument_group SET name = $2, deleted = $3, description = $4, ...
\* WHERE id = $1
UpdateInstrumentGroupRow(rows, g) ==
    {IF r.id = g.ID THEN [r EXCEPT !.name = g.Name, !.deleted = g.Deleted] ELSE r : r \in rows}

\* UpdateInstrumentGroup: QueryRowx(UPDATE ... RETURNING *).StructScan, for
\* which no row is an error
UpdateInstrumentGroup(p) ==
    /\ Admitted(p)
    /\ \E g \in [ID : {"g1", "g0"}, Name : {"a", "b"}, Deleted : BOOLEAN], fault \in BOOLEAN :
       LET c == [op |-> "UpdateInstrumentGroup", req |-> g, pre |-> db, n |-> 0,
                 again |-> FALSE]
           rows == UpdateInstrumentGroupRow(db.instrument_group, g)
           gUpdated == {r \in rows : r.id = g.ID}
       IN  IF fault
           THEN /\ call' = [call EXCEPT ![p] = Returned(c, "error", "query", Nil, "none")]
                /\ db' = db
           ELSE IF gUpdated = {}
           THEN /\ call' = [call EXCEPT ![p] = Returned(c, "error", "norows", Nil, "none")]
                /\ db' = db
           ELSE /\ call' = [call EXCEPT ![p] =
                               Returned(c, "ok", "return", CHOOSE r \in gUpdated : TRUE, "none")]
                /\ db' = [db EXCEPT !.instrument_group = rows]
    /\ UNCHANGED <<reconciled, serial, held>>

\* UPDATE instrument_group SET deleted = true WHERE id = $1
DeleteFlagInstrumentGroupRow(rows, id) ==
    {IF r.id = id THEN [r EXCEPT !.deleted = TRUE] ELSE r : r \in rows}

\* DeleteFlagInstrumentGroup: one db.Exec, its error returned
DeleteFlagInstrumentGroup(p) ==
    /\ Admitted(p)
    /\ \E id \in {"g1", "g0"}, fault \in BOOLEAN :
       LET c == [op |-> "DeleteFlagInstrumentGroup", req |-> [id |-> id], pre |-> db,
                 n |-> 0, again |-> FALSE]
       IN  IF fault
           THEN /\ call' = [call EXCEPT ![p] = Returned(c, "error", "exec", Nil, "none")]
                /\ db' = db
           ELSE /\ call' = [call EXCEPT ![p] = Returned(c, "ok", "return", Nil, "none")]
                /\ db' = [db EXCEPT !.instrument_group = DeleteFlagInstrumentGroupRow(@, id)]
    /\ UNCHANGED <<reconciled, serial, held>>

\* the collation of the names in use
NameRank(name) == IF name = "a" THEN 1 ELSE 2

\* ORDER BY name: every order of the rows with ascending names (the order of
\* rows with the same name is the database's choice)
OrderByName(rows) ==
    {s \in [1 .. Cardinality(rows) -> rows] :
        /\ \A i, j \in DOMAIN s : i # j => s[i] # s[j]
        /\ \A i, j \in DOMAIN s : i < j => NameRank(s[i].name) <= NameRank(s[j].name)}

\* ListProjects: listProjectsSQL + " WHERE NOT deleted ORDER BY name"
ListProjects(d) == OrderByName({r \in v_project(d) : ~r.deleted})

\* ListMyProjects: SELECT DISTINCT p.* FROM profile_project_roles ppr INNER JOIN
\* v_project p ON p.id = ppr.project_id WHERE ppr.profile_id = $1 AND NOT p.deleted
ListMyProjects(d, profileID) ==
    OrderByName({j.p : j \in {x \in [ppr : d.profile_project_roles, p : v_project(d)] :
                                 /\ x.p.id = x.ppr.project_id
                                 /\ x.ppr.profile_id = profileID
                                 /\ ~x.p.deleted}})

\* GetProjectCount: SELECT COUNT(id) FROM project WHERE NOT deleted
GetProjectCount(d) == Cardinality({r \in d.project : ~r.deleted})

\* a handler calls ListProjects, ListMyProjects or GetProjectCount
CallListProjects(p) ==
    /\ Admitted(p)
    /\ \E op \in {"ListProjects", "ListMyProjects", "GetProjectCount"}, profileID \in Profiles,
          fault \in BOOLEAN :
       LET req == [profileID |-> IF op = "ListMyProjects" THEN profileID ELSE 0, fault |-> fault]
           values == CASE op = "ListProjects" -> ListProjects(db)
                       [] op = "ListMyProjects" -> ListMyProjects(db, profileID)
                       [] op = "GetProjectCount" -> {GetProjectCount(db)}
       IN  \E value \in values :
             call' = [call EXCEPT ![p] =
                       Looked(op, req, IF fault
                                       THEN [status |-> "error", at |-> "query",
                                             value |-> IF op = "GetProjectCount" THEN 0 ELSE <<>>]
                                       ELSE [status |-> "ok", at |-> "return", value |-> value])]
    /\ UNCHANGED <<db, reconciled, serial, held>>

\* ------------------------------------------------------ project timeseries
\* the rows of project_timeseries for the pair; `copy` tells rows of one pair
\* apart
RowsOfPair(rows, projectID, timeseriesID) ==
    {r \in rows : r.project_id = projectID /\ r.timeseries_id = timeseriesID}

\* an INSERT without its ON CONFLICT clause and without the constraint
InsertProjectTimeseries_again(rows, projectID, timeseriesID) ==
    rows \cup {[project_id |-> projectID, timeseries_id |-> timeseriesID,
                copy |-> Cardinality(RowsOfPair(rows, projectID, timeseriesID)) + 1]}

\* INSERT INTO project_timeseries (project_id, timeseries_id) VALUES ($1, $2)
\* ON CONFLICT ON CONSTRAINT project_unique_timeseries DO NOTHING
InsertProjectTimeseries(rows, projectID, timeseriesID) ==
    IF RowsOfPair(rows, projectID, timeseriesID) # {} THEN rows
    ELSE rows \cup {[project_id |-> projectID, timeseries_id |-> timeseriesID, copy |-> 1]}

\* DELETE FROM project_timeseries WHERE project_id = $1 AND timeseries_id = $2
DeleteProjectTimeseriesRows(rows, projectID, timeseriesID) ==
    rows \ RowsOfPair(rows, projectID, timeseriesID)

\* CreateProjectTimeseries: one db.Exec, its error returned
CreateProjectTimeseries(p) ==
    /\ Admitted(p)
    /\ \E projectID \in ProjectIDs, timeseriesID \in timeseries, fault \in BOOLEAN :
       LET c == [op |-> "CreateProjectTimeseries",
                 req |-> [projectID |-> projectID, timeseriesID |-> timeseriesID,
                          fault |-> fault],
                 pre |-> db, n |-> 0, again |-> FALSE]
       IN  IF fault
           THEN /\ call' = [call EXCEPT ![p] = Returned(c, "error", "exec", Nil, "none")]
                /\ db' = db
           ELSE /\ call' = [call EXCEPT ![p] = Returned(c, "ok", "return", Nil, "none")]
                /\ db' = [db EXCEPT !.project_timeseries =
                                       InsertProjectTimeseries(@, projectID, timeseriesID)]
    /\ UNCHANGED <<reconciled, serial, held>>

\* DeleteProjectTimeseries: one db.Exec, its error returned
DeleteProjectTimeseries(p) ==
    /\ Admitted(p)
    /\ \E projectID \in ProjectIDs, timeseriesID \in timeseries, fault \in BOOLEAN :
       LET c == [op |-> "DeleteProjectTimeseries",
                 req |-> [projectID |-> projectID, timeseriesID |-> timeseriesID,
                          fault |-> fault],
                 pre |-> db, n |-> 0, again |-> FALSE]
       IN  IF fault
           THEN /\ call' = [call EXCEPT ![p] = Returned(c, "error", "exec", Nil, "none")]
                /\ db' = db
           ELSE /\ call' = [call EXCEPT ![p] = Returned(c, "ok", "return", Nil, "none")]
                /\ db' = [db EXCEPT !.project_timeseries =
                                       DeleteProjectTimeseriesRows(@, projectID, timeseriesID)]
    /\ UNCHANGED <<reconciled, serial, held>>

\* ------------------------------------------------ flexible collection decoder
\* ProjectCollection.UnmarshalJSON; the decoders of
\* TimeseriesMeasurementCollectionCollection, InstrumentNoteCollection and
\* InstrumentGroupCollection have the same text over their own entity type.
\*
\* A payload is what its bytes hold: optional leading white space, then nothing
\* ("empty"), null, a scalar, a stray token (one that can start no value), an
\* object or an array; an object or array is closed, or cut short (a syntax
\* error).  A member is a key with a value of the field's JSON type or of
\* another type ("bad").  Key "deleted" names field Deleted, tagged json:"-".
JSONKeys == {"id", "name", "deleted"}
JSONValues == {"a", "b", "bad"}
JSONMember == [key : JSONKeys, val : JSONValues]

JSONElements ==
    [kind : {"object"}, members : {<<>>} \cup [1 .. 1 -> JSONMember]]
        \cup [kind : {"null", "scalar"}, members : {<<>>}]

Payloads ==
    [space : BOOLEAN, kind : {"empty", "null", "scalar", "stray"}, closed : {TRUE},
     elements : {<<>>}]
    \cup [space : BOOLEAN, kind : {"object"}, closed : BOOLEAN,
          elements : {<<[kind |-> "object", members |-> ms]>> :
                         ms \in BoundedSeq(JSONMember, MaxMembers)}]
    \cup [space : BOOLEAN, kind : {"array"}, closed : BOOLEAN,
          elements : BoundedSeq(JSONElements, MaxElements)]

\* var p Project: the zero value
ZeroProject == [ID |-> "", Name |-> "", Deleted |-> FALSE]

\* the Projects a collection may hold before it is decoded into
PriorProjects == {<<>>, <<[ID |-> "b", Name |-> "b", Deleted |-> TRUE]>>}

\* JSONType(b): the first byte after the white space decides
JSONType(b) ==
    CASE b.kind = "array" -> "ARRAY"
      [] b.kind = "object" -> "OBJECT"
      [] OTHER -> "OTHER"

\* a decoding that has no field for the key "name"
DecodeMember_dropsName(v, m) ==
    CASE m.key \in {"deleted", "name"} -> [v |-> v, ok |-> TRUE]
      [] m.val = "bad" -> [v |-> v, ok |-> FALSE]
      [] m.key = "id" -> [v |-> [v EXCEPT !.ID = m.val], ok |-> TRUE]

\* json.Unmarshal of one member into the struct: a key without a field is
\* skipped, a value of the wrong type leaves the field and is an error
DecodeMember(v, m) ==
    CASE m.key = "deleted" -> [v |-> v, ok |-> TRUE]
      [] m.val = "bad" -> [v |-> v, ok |-> FALSE]
      [] m.key = "id" -> [v |-> [v EXCEPT !.ID = m.val], ok |-> TRUE]
      [] m.key = "name" -> [v |-> [v EXCEPT !.Name = m.val], ok |-> TRUE]

\* json.Unmarshal of an object into the struct v: member after member
RECURSIVE DecodeObject(_, _)
DecodeObject(v, members) ==
    IF members = <<>> THEN [v |-> v, ok |-> TRUE]
    ELSE LET r == DecodeMember(v, Head(members))
             rest == DecodeObject(r.v, Tail(members))
         IN  [v |-> rest.v, ok |-> r.ok /\ rest.ok]

\* json.Unmarshal of a value into a struct: null leaves it, a scalar is an error
DecodeElement(v, e) ==
    CASE e.kind = "object" -> DecodeObject(v, e.members)
      [] e.kind = "null" -> [v |-> v, ok |-> TRUE]
      [] e.kind = "scalar" -> [v |-> v, ok |-> FALSE]

\* json.Unmarshal of an array into the slice `items`: element i is decoded into
\* items[i] where the slice has one, into a zero value where it has none, and
\* the slice ends with the array; an error does not stop the decoding
RECURSIVE DecodeArray(_, _, _)
DecodeArray(items, elements, i) ==
    IF i > Len(elements) THEN [v |-> <<>>, ok |-> TRUE]
    ELSE LET r == DecodeElement(IF i <= Len(items) THEN items[i] ELSE ZeroProject, elements[i])
             rest == DecodeArray(items, elements, i + 1)
         IN  [v |-> <<r.v>> \o rest.v, ok |-> r.ok /\ rest.ok]

\* a default case that leaves the collection as it was
EmptyProjects_keeps(items) == items

\* make([]Project, 0)
EmptyProjects(items) == <<>>

\* (c *ProjectCollection) UnmarshalJSON(b): the Projects of c afterwards and
\* whether an error is returned.  json.Unmarshal checks the syntax of the whole
\* input before it stores anything.
UnmarshalJSON(items, b) ==
    CASE JSONType(b) = "ARRAY" ->
            IF ~b.closed THEN [status |-> "error", Projects |-> items]
            ELSE LET r == DecodeArray(items, b.elements, 1)
                 IN  [status |-> IF r.ok THEN "ok" ELSE "error", Projects |-> r.v]
      [] JSONType(b) = "OBJECT" ->
            IF ~b.closed THEN [status |-> "error", Projects |-> items]
            ELSE LET r == DecodeObject(ZeroProject, b.elements[1].members)
                 IN  IF r.ok THEN [status |-> "ok", Projects |-> <<r.v>>]
                     ELSE [status |-> "error", Projects |-> items]
      [] OTHER -> [status |-> "ok", Projects |-> EmptyProjects(items)]

\* a handler binds a request body into a collection
CallUnmarshalJSON(p) ==
    /\ Admitted(p)
    /\ \E items \in PriorProjects, b \in Payloads :
       LET r == UnmarshalJSON(items, b)
       IN  call' = [call EXCEPT ![p] =
                       Returned([op |-> "UnmarshalJSON", req |-> b, pre |-> items, n |-> 0,
                                 again |-> FALSE],
                                r.status, "return", r.Projects, "none")]
    /\ UNCHANGED <<db, reconciled, serial, held>>

\* -------------------------------------------------------- instrument notes
\* the notes of a collection decoded by InstrumentNoteCollection.UnmarshalJSON,
\* whose text is that of the decoder above: "id" names ID and "name" stands
\* for "title"
NotesOf(items) == [i \in 1 .. Len(items) |-> [id |-> items[i].ID, title |-> items[i].Name]]

IsCreateNote(p, pc) == call[p].op = "CreateInstrumentNote" /\ call[p].pc = pc

\* an error return of CreateInstrumentNote: none of them calls txn.Rollback(),
\* so but for a failed Commit the transaction stays open and keeps the ids of
\* the notes it has copied
FailedCreateNote(p, at, txnState) ==
    /\ call' = [call EXCEPT ![p] = Returned(call[p], "error", at, Nil, txnState)]
    /\ held' = IF txnState = "open"
               THEN [held EXCEPT !.notes = @ \cup {r.id : r \in call[p].txn.ins.instrument_note}]
               ELSE held
    /\ UNCHANGED <<db, reconciled, serial>>

\* models.CreateInstrumentNote(db, notes) up to the return of db.Begin()
BeganCreateInstrumentNote(notes, body, ok) ==
    LET c == [op |-> "CreateInstrumentNote", pc |-> "prepare",
              req |-> [notes |-> notes, body |-> body], i |-> 1,
              txn |-> NoWrites, pre |-> db, n |-> 0, again |-> FALSE]
    IN  IF ok THEN c ELSE Returned(c, "error", "begin", Nil, "none")

\* the note batches of the direct calls: none, one, two, one with the id of a
\* persisted note, one with an id twice
NoteBatches ==
    {<<>>, <<[id |-> "n2", title |-> "a"]>>,
     <<[id |-> "n2", title |-> "a"], [id |-> "n3", title |-> "a"]>>,
     <<[id |-> "n2", title |-> "a"], [id |-> "n1", title |-> "a"]>>,
     <<[id |-> "n2", title |-> "a"], [id |-> "n2", title |-> "a"]>>}

\* a caller other than the handler calls models.CreateInstrumentNote(db, notes)
CallCreateInstrumentNote(p) ==
    /\ Admitted(p)
    /\ \A r \in db.instrument_note : r.id # "n2"
    /\ \E notes \in NoteBatches, ok \in BOOLEAN :
          call' = [call EXCEPT ![p] = BeganCreateInstrumentNote(notes, Nil, ok)]
    /\ UNCHANGED <<db, reconciled, serial, held>>

\* txn.Prepare(pq.CopyIn("instrument_note", ...))
PrepareCopyNotes(p) ==
    /\ IsCreateNote(p, "prepare")
    /\ \E ok \in BOOLEAN :
       IF ok THEN /\ call' = [call EXCEPT ![p].pc = "exec"]
                  /\ UNCHANGED <<db, reconciled, serial, held>>
       ELSE FailedCreateNote(p, "prepare", "open")

\* one turn of the loop: stmt.Exec(n.ID, ...) hands a row to the COPY
ExecCopyNote(p) ==
    /\ IsCreateNote(p, "exec")
    /\ call[p].i <= Len(call[p].req.notes)
    /\ \E ok \in BOOLEAN :
       IF ok THEN /\ call' = [call EXCEPT ![p].i = @ + 1, ![p].n = @ + 1]
                  /\ UNCHANGED <<db, reconciled, serial, held>>
       ELSE FailedCreateNote(p, "exec", "open")

\* the rows of instrument_note after a COPY of `notes`; id is its primary key
CopyNotes(rows, notes) ==
    IF \/ \E i \in 1 .. Len(notes) : \E r \in rows : r.id = notes[i].id
       \/ \E i \in 1 .. Len(notes), j \in 1 .. Len(notes) : i # j /\ notes[i].id = notes[j].id
    THEN [ok |-> FALSE, rows |-> rows]
    ELSE [ok |-> TRUE, rows |-> rows \cup Range(notes)]

\* stmt.Exec() without arguments: the COPY is carried out
FlushCopyNotes(p) ==
    /\ IsCreateNote(p, "exec")
    /\ call[p].i > Len(call[p].req.notes)
    /\ \E ok \in BOOLEAN :
       LET r == CopyNotes(View(db, call[p].txn, "instrument_note"), call[p].req.notes)
       IN  IF ok /\ r.ok
           THEN /\ \A i \in 1 .. Len(call[p].req.notes) :
                      call[p].req.notes[i].id \notin held.notes
                /\ call' = [call EXCEPT
                              ![p].txn = Written(db, @, "instrument_note", r.rows),
                              ![p].pc = "close"]
                /\ UNCHANGED <<db, reconciled, serial, held>>
           ELSE FailedCreateNote(p, "flush", "open")

\* stmt.Close()
CloseCopyNotes(p) ==
    /\ IsCreateNote(p, "close")
    /\ \E ok \in BOOLEAN :
       IF ok THEN /\ call' = [call EXCEPT ![p].pc = "commit"]
                  /\ UNCHANGED <<db, reconciled, serial, held>>
       ELSE FailedCreateNote(p, "close", "open")

\* txn.Commit(): a Commit that fails has ended the transaction without
\* installing it
CommitCreateNote(p) ==
    /\ IsCreateNote(p, "commit")
    /\ \E ok \in BOOLEAN :
       IF ok
       THEN /\ db' = Committed(db, call[p].txn)
            /\ call' = [call EXCEPT ![p] = Returned(call[p], "ok", "return", Nil, "committed")]
            /\ UNCHANGED <<reconciled, serial, held>>
       ELSE FailedCreateNote(p, "commit", "rolledback")

\* UPDATE instrument_note SET title = $2, ... WHERE id = $1 RETURNING ...,
\* scanned into one struct: no row is an error
UpdateInstrumentNote(rows, n, fault) ==
    LET hit == {r \in rows : r.id = n.id}
        updated == {[r EXCEPT !.title = n.title] : r \in hit}
    IN  IF fault \/ hit = {} THEN [status |-> "error", rows |-> rows, value |-> Nil]
        ELSE [status |-> "ok", rows |-> (rows \ hit) \cup updated,
              value |-> CHOOSE r \in updated : TRUE]

\* DELETE FROM instrument_note WHERE id = $1
DeleteInstrumentNoteRows(rows, id) == {r \in rows : r.id # id}

\* models.DeleteInstrumentNote: one db.Exec, its error returned
DeleteInstrumentNote(p) ==
    /\ Admitted(p)
    /\ \E id \in {"n1", "n2", "n0"}, fault \in BOOLEAN :
       LET c == [op |-> "DeleteInstrumentNote", req |-> [id |-> id, fault |-> fault],
                 pre |-> db, n |-> 0, again |-> FALSE]
       IN  IF fault
           THEN /\ call' = [call EXCEPT ![p] = Returned(c, "error", "exec", Nil, "none")]
                /\ db' = db
           ELSE /\ call' = [call EXCEPT ![p] = Returned(c, "ok", "return", Nil, "none")]
                /\ db' = [db EXCEPT !.instrument_note = DeleteInstrumentNoteRows(@, id)]
    /\ UNCHANGED <<reconciled, serial, held>>

\* ----------------------------------------------------------------- handlers
\* values of a path parameter; "not-a-uuid" is no UUID
PathParams == {"n1", "a", "not-a-uuid"}

\* the request bodies sent to the handlers: no white space before a value, at
\* most two elements, at most one member in an object
RequestBodies ==
    {b \in Payloads :
        /\ b.space => b.kind = "empty"
        /\ Len(b.elements) <= 2
        /\ \A i \in 1 .. Len(b.elements) : Len(b.elements[i].members) <= 1}

\* uuid.Parse(c.Param(...))
ParseUUID(param) ==
    IF param = "not-a-uuid" THEN [ok |-> FALSE, id |-> ""] ELSE [ok |-> TRUE, id |-> param]

\* c.Bind(&n) into a struct: a request without body is left out, otherwise the
\* body is decoded as one JSON value
BindStruct(v, b) ==
    CASE b.kind = "empty" -> [v |-> v, ok |-> ~b.space]
      [] b.kind = "null" -> [v |-> v, ok |-> TRUE]
      [] b.kind \in {"scalar", "stray", "array"} -> [v |-> v, ok |-> FALSE]
      [] b.kind = "object" ->
            IF b.closed THEN DecodeObject(v, b.elements[1].members) ELSE [v |-> v, ok |-> FALSE]

\* c.Bind(&nc) into a collection: a request without body is left out, a body
\* that is no JSON value is an error, any other goes to UnmarshalJSON
BindCollection(b) ==
    CASE b.kind = "empty" -> [v |-> <<>>, ok |-> ~b.space]
      [] b.kind = "stray" -> [v |-> <<>>, ok |-> FALSE]
      [] OTHER -> LET r == UnmarshalJSON(<<>>, b)
                  IN  [v |-> r.Projects, ok |-> r.status = "ok"]

\* a handler that does not compare the two identifiers
SameNote_unchecked(noteID, n) == TRUE

\* noteID != n.ID
SameNote(noteID, n) == noteID = n.ID

\* the handler answers: the status code, how many data-access calls it made
Answered(op, req, code, calls, value) ==
    Returned([op |-> op, req |-> req, pre |-> db, n |-> calls, again |-> FALSE],
             code, "respond", value, "none")

\* handlers.UpdateInstrumentNote
HandleUpdateInstrumentNote(p) ==
    /\ Admitted(p)
    /\ \E param \in PathParams, b \in RequestBodies, fault \in BOOLEAN :
       LET req == [param |-> param, body |-> b, fault |-> fault]
           noteID == ParseUUID(param)
           n == BindStruct([ZeroProject EXCEPT !.ID = noteID.id], b)
           r == UpdateInstrumentNote(db.instrument_note,
                                     [id |-> n.v.ID, title |-> n.v.Name], fault)
           op == "handlers.UpdateInstrumentNote"
       IN  IF ~noteID.ok \/ ~n.ok \/ ~SameNote(noteID.id, n.v)
           THEN /\ call' = [call EXCEPT ![p] = Answered(op, req, "400", 0, Nil)]
                /\ db' = db
           ELSE /\ call' = [call EXCEPT ![p] =
                               Answered(op, req, IF r.status = "ok" THEN "200" ELSE "400", 1,
                                        r.value)]
                /\ db' = [db EXCEPT !.instrument_note = r.rows]
    /\ UNCHANGED <<reconciled, serial, held>>

\* handlers.DeleteInstrumentNote
HandleDeleteInstrumentNote(p) ==
    /\ Admitted(p)
    /\ \E param \in PathParams, fault \in BOOLEAN :
       LET req == [param |-> param, fault |-> fault]
           noteID == ParseUUID(param)
           op == "handlers.DeleteInstrumentNote"
       IN  IF ~noteID.ok
           THEN /\ call' = [call EXCEPT ![p] = Answered(op, req, "400", 0, Nil)]
                /\ db' = db
           ELSE IF fault
           THEN /\ call' = [call EXCEPT ![p] = Answered(op, req, "500", 1, Nil)]
                /\ db' = db
           ELSE /\ call' = [call EXCEPT ![p] = Answered(op, req, "200", 1, Nil)]
                /\ db' = [db EXCEPT !.instrument_note =
                                       DeleteInstrumentNoteRows(@, noteID.id)]
    /\ UNCHANGED <<reconciled, serial, held>>

\* handlers.CreateInstrumentNote: after the binding it calls
\* models.CreateInstrumentNote, whose steps follow
HandleCreateInstrumentNote(p) ==
    /\ Admitted(p)
    /\ \E b \in RequestBodies, ok \in BOOLEAN :
       LET nc == BindCollection(b)
       IN  call' = [call EXCEPT ![p] =
                       IF ~nc.ok
                       THEN Answered("handlers.CreateInstrumentNote", [body |-> b], "400", 0, Nil)
                       ELSE BeganCreateInstrumentNote(NotesOf(nc.v), b, ok)]
    /\ UNCHANGED <<db, reconciled, serial, held>>

\* handlers.CreateOrUpdateInstrumentStatus: uuid.NewRandom() for every item
\* can fail, which is answered with 500 before any data access;
\* models.CreateOrUpdateInstrumentStatus is outside this source tree: it
\* succeeds or fails, and its rows are not followed
HandleCreateOrUpdateInstrumentStatus(p) ==
    /\ Admitted(p)
    /\ \E param \in PathParams, b \in RequestBodies, outcome \in {"201", "500"},
          random \in BOOLEAN :
       LET req == [param |-> param, body |-> b]
           instrumentID == ParseUUID(param)
           sc == BindCollection(b)
           op == "handlers.CreateOrUpdateInstrumentStatus"
       IN  call' = [call EXCEPT ![p] =
                       IF ~instrumentID.ok \/ ~sc.ok
                       THEN Answered(op, req, "400", 0, Nil)
                       ELSE IF Len(sc.v) > 0 /\ ~random
                       THEN Answered(op, req, "500", 0, Nil)
                       ELSE Answered(op, req, outcome, 1, Nil)]
    /\ UNCHANGED <<db, reconciled, serial, held>>

\* ----------------------------------------------------------- initial state
plotConfigurationRows ==
    {[id |-> "pc1", project_id |-> "p1", name |-> 1, updater |-> 1],
     [id |-> "pc2", project_id |-> "p2", name |-> 1, updater |-> 1]}

projectRows ==
    {[id |-> "p1", name |-> "a", deleted |-> FALSE],
     [id |-> "p2", name |-> "b", deleted |-> FALSE]}

\* profile 1 holds two roles in project p1 and one in p2, profile 2 holds none
profileProjectRoles ==
    {[profile_id |-> 1, project_id |-> "p1", role |-> 1],
     [profile_id |-> 1, project_id |-> "p1", role |-> 2],
     [profile_id |-> 1, project_id |-> "p2", role |-> 1]}

instrumentNoteRows == {[id |-> "n1", title |-> "a"]}

timeseriesRows == {[id |-> t] : t \in timeseries}

InitDb ==
    /\ db = [t \in Tables |->
               CASE t = "plot_configuration" -> plotConfigurationRows
                 [] t = "project" -> projectRows
                 [] t = "instrument_note" -> instrumentNoteRows
                 [] t = "profile_project_roles" -> profileProjectRoles
                 [] t = "timeseries" -> timeseriesRows
                 [] OTHER -> {}]
    /\ call = [p \in Procs |-> Idle]
    /\ reconciled = <<>>
    /\ held = NoLocks

Init == InitDb /\ serial = TRUE

NextMeasurements ==
    \/ \E p \in Procs : BeginCreateOrUpdateTimeseriesMeasurements(p)
    \/ \E p \in Procs, ok \in BOOLEAN : PrepareUpsert(p, ok)
    \/ \E p \in Procs, ok \in BOOLEAN : ExecUpsert(p, ok)
    \/ \E p \in Procs, ok \in BOOLEAN : CloseUpsert(p, ok)
    \/ \E p \in Procs, ok \in BOOLEAN : CommitUpsert(p, ok)
    \/ \E p \in Procs : ListTimeseriesMeasurements(p)
    \/ \E p \in Procs : Return(p)

SpecMeasurements == Init /\ [][NextMeasurements]_vars

\* the requests are served at the same time
InitRacing == InitDb /\ serial = FALSE

SpecRacingMeasurements == InitRacing /\ [][NextMeasurements]_vars

NextPlotConfiguration ==
    \/ \E p \in Procs : BeginUpdatePlotConfiguration(p)
    \/ \E p \in Procs : PrepareUpdate(p)
    \/ \E p \in Procs : BuildDeleteNotIn(p)
    \/ \E p \in Procs : PrepareDelete(p)
    \/ \E p \in Procs : PrepareInsert(p)
    \/ \E p \in Procs : ExecUpdate(p)
    \/ \E p \in Procs : ExecDelete(p)
    \/ \E p \in Procs : ExecInsert(p)
    \/ \E p \in Procs : CloseStatements(p)
    \/ \E p \in Procs : CommitUpdate(p)
    \/ \E p \in Procs : RereadPlotConfiguration(p)
    \/ \E p \in Procs : DeletePlotConfiguration(p)
    \/ \E p \in Procs : CallGetProject(p)
    \/ \E p \in Procs : CallGetPlotConfiguration(p)
    \/ \E p \in Procs : CallGetInstrumentNote(p)
    \/ \E p \in Procs : DeleteInstrumentNote(p)
    \/ \E p \in Procs : Return(p)

SpecPlotConfiguration == Init /\ [][NextPlotConfiguration]_vars

NextRacingPlotConfiguration ==
    \/ \E p \in Procs : BeginUpdatePlotConfiguration(p)
    \/ \E p \in Procs : PrepareUpdate(p)
    \/ \E p \in Procs : BuildDeleteNotIn(p)
    \/ \E p \in Procs : PrepareDelete(p)
    \/ \E p \in Procs : PrepareInsert(p)
    \/ \E p \in Procs : ExecUpdate(p)
    \/ \E p \in Procs : ExecDelete(p)
    \/ \E p \in Procs : ExecInsert(p)
    \/ \E p \in Procs : CloseStatements(p)
    \/ \E p \in Procs : CommitUpdate(p)
    \/ \E p \in Procs : RereadPlotConfiguration(p)
    \/ \E p \in Procs : DeletePlotConfiguration(p)
    \/ \E p \in Procs : Return(p)

SpecRacingPlotConfiguration == InitRacing /\ [][NextRacingPlotConfiguration]_vars

NextDecoder ==
    \/ \E p \in Procs : CallUnmarshalJSON(p)
    \/ \E p \in Procs : Return(p)

SpecDecoder == Init /\ [][NextDecoder]_vars

NextHandlers ==
    \/ \E p \in Procs : HandleUpdateInstrumentNote(p)
    \/ \E p \in Procs : HandleCreateOrUpdateInstrumentStatus(p)
    \/ \E p \in Procs : HandleCreateInstrumentNote(p)
    \/ \E p \in Procs : HandleDeleteInstrumentNote(p)
    \/ \E p \in Procs : PrepareCopyNotes(p)
    \/ \E p \in Procs : ExecCopyNote(p)
    \/ \E p \in Procs : FlushCopyNotes(p)
    \/ \E p \in Procs : CloseCopyNotes(p)
    \/ \E p \in Procs : CommitCreateNote(p)
    \/ \E p \in Procs : Return(p)

SpecHandlers == Init /\ [][NextHandlers]_vars

NextProjects ==
    \/ \E p \in Procs : BeginBulkCreate(p, "CreateProjectBulk")
    \/ \E p \in Procs : PrepareBulkInsert(p)
    \/ \E p \in Procs : GetBulkInsert(p)
    \/ \E p \in Procs : CloseBulkInsert(p)
    \/ \E p \in Procs : CommitBulkCreate(p)
    \/ \E p \in Procs : UpdateProject(p)
    \/ \E p \in Procs : RereadProject(p)
    \/ \E p \in Procs : DeleteFlagProject(p)
    \/ \E p \in Procs : CallListProjects(p)
    \/ \E p \in Procs : CallGetProject(p)
    \/ \E p \in Procs : Return(p)

SpecProjects == Init /\ [][NextProjects]_vars

BulkCreates ==
    {"CreateProjectBulk", "CreateInstrumentGroup", "CreateInstrumentNote",
     "CreatePlotConfiguration"}

NextBulkCreate ==
    \/ \E p \in Procs, op \in {"CreateProjectBulk", "CreateInstrumentGroup"} :
          BeginBulkCreate(p, op)
    \/ \E p \in Procs : PrepareBulkInsert(p)
    \/ \E p \in Procs : GetBulkInsert(p)
    \/ \E p \in Procs : CloseBulkInsert(p)
    \/ \E p \in Procs : CommitBulkCreate(p)
    \/ \E p \in Procs : UpdateInstrumentGroup(p)
    \/ \E p \in Procs : DeleteFlagInstrumentGroup(p)
    \/ \E p \in Procs : CallCreateInstrumentNote(p)
    \/ \E p \in Procs : PrepareCopyNotes(p)
    \/ \E p \in Procs : ExecCopyNote(p)
    \/ \E p \in Procs : FlushCopyNotes(p)
    \/ \E p \in Procs : CloseCopyNotes(p)
    \/ \E p \in Procs : CommitCreateNote(p)
    \/ \E p \in Procs : DeleteInstrumentNote(p)
    \/ \E p \in Procs : BeginCreatePlotConfiguration(p)
    \/ \E p \in Procs : PreparePlotInserts(p)
    \/ \E p \in Procs : GetNewPlotConfiguration(p)
    \/ \E p \in Procs : ExecNewAssociation(p)
    \/ \E p \in Procs : ClosePlotInserts(p)
    \/ \E p \in Procs : CommitCreatePlot(p)
    \/ \E p \in Procs : RereadNewPlotConfiguration(p)
    \/ \E p \in Procs : DeletePlotConfiguration(p)
    \/ \E p \in Procs : Return(p)

SpecBulkCreate == Init /\ [][NextBulkCreate]_vars

NextProjectTimeseries ==
    \/ \E p \in Procs : CreateProjectTimeseries(p)
    \/ \E p \in Procs : DeleteProjectTimeseries(p)
    \/ \E p \in Procs : Return(p)

SpecProjectTimeseries == Init /\ [][NextProjectTimeseries]_vars

Next ==
    \/ NextMeasurements
    \/ NextPlotConfiguration
    \/ NextDecoder
    \/ NextHandlers
    \/ NextProjects
    \/ NextBulkCreate
    \/ NextProjectTimeseries

Spec == Init /\ [][Next]_vars

\* ------------------------------------------------------------------ claims
HasReturned(p, op) == call[p].op = op /\ call[p].pc = "returned"

Key(r) == <<r.timeseries_id, r.time>>

RowsOfKey(rows, k) == {r \in rows : Key(r) = k}

\* the points of a batch in the order the two loops write them
RECURSIVE Points(_)
Points(mc) ==
    IF mc = <<>> THEN <<>>
    ELSE [i \in 1 .. Len(Head(mc).Items) |->
            [timeseries_id |-> Head(mc).TimeseriesID,
             time |-> Head(mc).Items[i].Time,
             value |-> Head(mc).Items[i].Value]] \o Points(Tail(mc))

BatchKeys(mc) == {Key(pt) : pt \in Range(Points(mc))}

\* the value of the last point of the batch written under key k
LastValue(mc, k) ==
    LET pts == Points(mc)
        last == CHOOSE i \in 1 .. Len(pts) :
                    Key(pts[i]) = k /\ \A j \in (i + 1) .. Len(pts) : Key(pts[j]) # k
    IN  pts[last].value

\* C2: when the write of a point of a batch fails, the call returns the error and
\* no value, and the measurement table is what it was before the call: the points
\* written before the failing one are not persisted.
C2_FailedWriteAbortsBatch ==
    \A p \in Procs :
        (HasReturned(p, "CreateOrUpdateTimeseriesMeasurements") /\ call[p].at = "exec")
        => /\ call[p].status = "error"
           /\ call[p].value = Nil
           /\ db.timeseries_measurement = call[p].pre.timeseries_measurement

\* a batch whose second point failed after its first point, a new row, was written
C2_Witness ==
    \E p \in Procs :
        /\ HasReturned(p, "CreateOrUpdateTimeseriesMeasurements")
        /\ call[p].at = "exec"
        /\ call[p].n = 1
        /\ Key(Points(call[p].req)[1]) \notin {Key(r) : r \in call[p].pre.timeseries_measurement}

\* C3: a successful batch that writes, under a key that already holds a row with
\* another value (written by an earlier successful batch), leaves exactly one row
\* for that key, and the row holds the value of the later batch.
C3_SecondUpsertOverwrites ==
    \A p \in Procs :
        (HasReturned(p, "CreateOrUpdateTimeseriesMeasurements") /\ call[p].status = "ok")
        => \A k \in BatchKeys(call[p].req) :
              (\E r \in call[p].pre.timeseries_measurement :
                   Key(r) = k /\ r.value # LastValue(call[p].req, k))
              => RowsOfKey(db.timeseries_measurement, k) =
                    {[timeseries_id |-> k[1], time |-> k[2], value |-> LastValue(call[p].req, k)]}

\* a one-point batch has overwritten the value an earlier batch stored under its key
C3_Witness ==
    \E p \in Procs :
        /\ HasReturned(p, "CreateOrUpdateTimeseriesMeasurements")
        /\ call[p].status = "ok"
        /\ Len(Points(call[p].req)) = 1
        /\ \E r \in call[p].pre.timeseries_measurement :
              /\ Key(r) = Key(Points(call[p].req)[1])
              /\ r.value # Points(call[p].req)[1].value
              /\ [r EXCEPT !.value = Points(call[p].req)[1].value] \in db.timeseries_measurement

\* the rows a successful ListTimeseriesMeasurements read from
StoredPoints(p) == {r \in call[p].pre.timeseries_measurement :
                       r.timeseries_id = call[p].req.timeseriesID}

\* C8: ListTimeseriesMeasurements with window (After, Before) returns no point
\* with time <= After or time >= Before, and returns every stored point of the
\* series with After < time < Before.
C8_WindowStrictlyExclusive ==
    \A p \in Procs :
        (HasReturned(p, "ListTimeseriesMeasurements") /\ call[p].status = "ok")
        => /\ \A m \in Range(call[p].value.Items) :
                 m.time > call[p].req.After /\ m.time < call[p].req.Before
           /\ \A r \in StoredPoints(p) :
                 (r.time > call[p].req.After /\ r.time < call[p].req.Before)
                 => r \in Range(call[p].value.Items)

\* a read that returned a point and left out a stored point lying on a bound
C8_Witness ==
    \E p \in Procs :
        /\ HasReturned(p, "ListTimeseriesMeasurements")
        /\ call[p].status = "ok"
        /\ call[p].value.Items # <<>>
        /\ \E r \in StoredPoints(p) : r.time = call[p].req.After \/ r.time = call[p].req.Before

\* C9: ListTimeseriesMeasurements returns one collection carrying the requested
\* timeseries identifier, whose points all belong to that series and come in
\* strictly descending time; when no stored point matches and the storage does
\* not fail, it returns the empty sequence and no error.
C9_OneSeriesDescending ==
    \A p \in Procs :
        HasReturned(p, "ListTimeseriesMeasurements")
        => /\ call[p].status = "ok"
              => /\ call[p].value.TimeseriesID = call[p].req.timeseriesID
                 /\ \A m \in Range(call[p].value.Items) :
                       m.timeseries_id = call[p].req.timeseriesID
                 /\ \A i \in 1 .. Len(call[p].value.Items), j \in 1 .. Len(call[p].value.Items) :
                       i < j => call[p].value.Items[i].time > call[p].value.Items[j].time
           /\ (~call[p].req.fault /\
               ~\E r \in StoredPoints(p) :
                   r.time > call[p].req.After /\ r.time < call[p].req.Before)
              => call[p].status = "ok" /\ call[p].value.Items = <<>>

\* a read of two points of one series while the other series holds points too
C9_Witness ==
    \E p \in Procs :
        /\ HasReturned(p, "ListTimeseriesMeasurements")
        /\ call[p].status = "ok"
        /\ Len(call[p].value.Items) = 2
        /\ \E r \in call[p].pre.timeseries_measurement :
              r.timeseries_id # call[p].req.timeseriesID

\* C10: a successful batch changes only the rows whose key occurs in it: every
\* other row keeps its value, no row is deleted, and the table holds exactly the
\* old keys plus the keys of the batch, one row each.
C10_UpsertFrame ==
    \A p \in Procs :
        (HasReturned(p, "CreateOrUpdateTimeseriesMeasurements") /\ call[p].status = "ok")
        => LET old == call[p].pre.timeseries_measurement
               new == db.timeseries_measurement
               keys == BatchKeys(call[p].req)
           IN  /\ {r \in old : Key(r) \notin keys} = {r \in new : Key(r) \notin keys}
               /\ {Key(r) : r \in new} = {Key(r) : r \in old} \cup keys
               /\ \A k \in keys :
                     RowsOfKey(new, k) =
                        {[timeseries_id |-> k[1], time |-> k[2], value |-> LastValue(call[p].req, k)]}

\* the shape of the example: of two stored points of a series, a batch of two
\* points overwrites one with another value and adds a point under a new key,
\* and the other stored point is still there
C10_Witness ==
    \E p \in Procs :
        /\ HasReturned(p, "CreateOrUpdateTimeseriesMeasurements")
        /\ call[p].status = "ok"
        /\ Len(Points(call[p].req)) = 2
        /\ Cardinality(call[p].pre.timeseries_measurement) = 2
        /\ Cardinality(db.timeseries_measurement) = 3
        /\ \E r \in call[p].pre.timeseries_measurement :
              Key(r) \in BatchKeys(call[p].req) /\ r \notin db.timeseries_measurement
        /\ \E r \in call[p].pre.timeseries_measurement :
              Key(r) \notin BatchKeys(call[p].req) /\ r \in db.timeseries_measurement

\* the associations of plot configuration id among `rows`
Associated(rows, id) == {r.timeseries_id : r \in {x \in rows : x.plot_configuration_id = id}}

\* the steps of UpdatePlotConfiguration at which the storage may fail
StorageSteps == {"begin", "prepare1", "prepare2", "prepare3", "exec1", "exec2", "exec3",
                 "close1", "close2", "close3", "commit", "get"}

\* the steps of the reconciliation up to and including its commit
ReconcileSteps == {"begin", "prepare1", "in", "prepare2", "prepare3", "exec1", "exec2",
                   "exec3", "close1", "close2", "close3", "commit"}

\* C1: an UpdatePlotConfiguration whose desired TimeseriesID sequence is empty,
\* for a plot configuration that has associations, succeeds (the storage not
\* failing) and leaves no association row of that plot configuration.
C1_EmptyReconcileSucceeds ==
    \A p \in Procs :
        (/\ HasReturned(p, "UpdatePlotConfiguration")
         /\ call[p].req.TimeseriesID = <<>>
         /\ Associated(call[p].pre.plot_configuration_timeseries, call[p].req.ID) # {}
         /\ call[p].at \notin StorageSteps)
        => /\ call[p].status = "ok"
           /\ Associated(db.plot_configuration_timeseries, call[p].req.ID) = {}

\* C4: after a successful UpdatePlotConfiguration with desired sequence D the
\* persisted associations of the plot configuration are exactly the identifiers
\* occurring in D, one row each, and the value returned is the plot configuration
\* as persisted after the commit.
C4_ReconciledToDesired ==
    \A p \in Procs :
        (HasReturned(p, "UpdatePlotConfiguration") /\ call[p].status = "ok")
        => LET rows == {r \in db.plot_configuration_timeseries :
                           r.plot_configuration_id = call[p].req.ID}
           IN  /\ {r.timeseries_id : r \in rows} = Range(call[p].req.TimeseriesID)
               /\ Cardinality(rows) = Cardinality(Range(call[p].req.TimeseriesID))
               /\ call[p].value \in v_plot_configuration(db)
               /\ call[p].value.id = call[p].req.ID
               /\ call[p].value.timeseries_id = Range(call[p].req.TimeseriesID)
               /\ call[p].value.name = call[p].req.Name

\* a desired sequence naming one identifier twice has replaced another association
C4_Witness ==
    \E p \in Procs :
        /\ HasReturned(p, "UpdatePlotConfiguration")
        /\ call[p].status = "ok"
        /\ Len(call[p].req.TimeseriesID) = 2
        /\ Cardinality(Range(call[p].req.TimeseriesID)) = 1
        /\ Associated(call[p].pre.plot_configuration_timeseries, call[p].req.ID)
              \ Range(call[p].req.TimeseriesID) # {}
        /\ Associated(call[p].pre.plot_configuration_timeseries, call[p].req.ID)
              \cap Range(call[p].req.TimeseriesID) = {}

\* C5: when a step of the reconciliation fails (beginning, preparing, the name
\* update, the delete, an insert, closing or the commit), the persisted plot
\* configurations (name, updater) and associations are what they were before
\* the call and no value is returned; after a failed name update, delete,
\* insert or commit the transaction has been rolled back.
C5_FailedReconcileChangesNothing ==
    \A p \in Procs :
        (/\ HasReturned(p, "UpdatePlotConfiguration")
         /\ call[p].status = "error"
         /\ call[p].at \in ReconcileSteps)
        => /\ db.plot_configuration = call[p].pre.plot_configuration
           /\ db.plot_configuration_timeseries = call[p].pre.plot_configuration_timeseries
           /\ call[p].value = Nil
           /\ call[p].at \in {"exec1", "exec2", "exec3", "commit"} => call[p].txn = "rolledback"

\* the second insert failed after the name update, a delete and an insert
C5_Witness ==
    \E p \in Procs :
        /\ HasReturned(p, "UpdatePlotConfiguration")
        /\ call[p].status = "error"
        /\ call[p].at = "exec3"
        /\ call[p].n.deleted = 1
        /\ call[p].n.inserted = 1
        /\ \E r \in call[p].pre.plot_configuration :
              /\ r.id = call[p].req.ID
              /\ r.project_id = call[p].req.ProjectID
              /\ r.name # call[p].req.Name

\* C6: an UpdatePlotConfiguration that follows a successful one for the same plot
\* configuration and the same desired set deletes no association row, inserts
\* none and leaves the persisted associations as they were.
C6_ReconcileIdempotent ==
    \A p \in Procs :
        (HasReturned(p, "UpdatePlotConfiguration") /\ call[p].status = "ok" /\ call[p].again)
        => /\ call[p].n.deleted = 0
           /\ call[p].n.inserted = 0
           /\ db.plot_configuration_timeseries = call[p].pre.plot_configuration_timeseries

\* the second of two calls with a desired set of two identifiers has returned
C6_Witness ==
    \E p \in Procs :
        /\ HasReturned(p, "UpdatePlotConfiguration")
        /\ call[p].status = "ok"
        /\ call[p].again
        /\ Cardinality(Range(call[p].req.TimeseriesID)) = 2

\* the lookup handler p made matched no row
NoRowMatched(p) ==
    CASE call[p].op = "GetProject" ->
            ~\E r \in call[p].pre.project : r.id = call[p].req.id
      [] call[p].op = "GetPlotConfiguration" ->
            ~\E r \in call[p].pre.plot_configuration :
                r.id = call[p].req.id /\ r.project_id = call[p].req.projectID
      [] call[p].op = "GetInstrumentNote" ->
            ~\E r \in call[p].pre.instrument_note : r.id = call[p].req.id
      [] OTHER -> FALSE

\* C7: a single-entity lookup that matches no row returns an error and no
\* entity; it does not crash.
C7_NotFoundIsAnError ==
    \A p \in Procs :
        (/\ call[p].op \in {"GetProject", "GetPlotConfiguration", "GetInstrumentNote"}
         /\ NoRowMatched(p))
        => call[p].status = "error" /\ call[p].value = Nil

\* handler p commits its upsert batch in this step
CommitsUpsert(p) ==
    /\ call[p].op = "CreateOrUpdateTimeseriesMeasurements"
    /\ call[p].pc = "commit"
    /\ call'[p].pc = "returned"
    /\ call'[p].status = "ok"

\* C11: when an upsert batch commits, also while another batch that writes the
\* same key with another value is in progress or has committed before it, the
\* table holds exactly one row for each key of the committing batch and the row
\* carries the value of that batch: the transaction that commits last wins.
C11_LastCommitWins ==
    [][\A p \in Procs :
          CommitsUpsert(p)
          => \A k \in BatchKeys(call[p].req) :
                RowsOfKey(db'.timeseries_measurement, k) =
                   {[timeseries_id |-> k[1], time |-> k[2], value |-> LastValue(call[p].req, k)]}]_vars

\* two batches that both began before either had committed (neither saw a row
\* under the key) have both committed another value under the same key, and
\* the table holds one of the two
C11_Witness ==
    \E k \in {<<"ts1", 1>>} :
        /\ \A p \in Procs :
              /\ HasReturned(p, "CreateOrUpdateTimeseriesMeasurements")
              /\ call[p].status = "ok"
              /\ k \in BatchKeys(call[p].req)
              /\ RowsOfKey(call[p].pre.timeseries_measurement, k) = {}
        /\ LastValue(call["h1"].req, k) # LastValue(call["h2"].req, k)
        /\ Cardinality(RowsOfKey(db.timeseries_measurement, k)) = 1

\* the members of an object all carry a value of their field's type
ValidObject(members) ==
    \A i \in 1 .. Len(members) : members[i].key # "deleted" => members[i].val # "bad"

\* the value an object gives under `key`, `zero` when it has no such member
FieldOf(members, key, zero) ==
    IF \E i \in 1 .. Len(members) : members[i].key = key
    THEN members[CHOOSE i \in 1 .. Len(members) :
                    /\ members[i].key = key
                    /\ \A j \in (i + 1) .. Len(members) : members[j].key # key].val
    ELSE zero

\* the entity a valid object describes
EntityOf(members) ==
    [ID |-> FieldOf(members, "id", ""), Name |-> FieldOf(members, "name", ""), Deleted |-> FALSE]

\* C12: the decoder maps a payload that is one valid entity object to the
\* sequence of exactly that entity, and a payload that is an array of N valid
\* entity objects to a sequence of N items in the order of the array: item i
\* carries every value element i gives, and is the entity element i describes
\* when the collection was empty before.
C12_ObjectOrArrayDecoded ==
    \A p \in Procs :
        HasReturned(p, "UnmarshalJSON")
        => LET b == call[p].req
               items == call[p].value
           IN  /\ (b.kind = "object" /\ b.closed /\ ValidObject(b.elements[1].members))
                  => /\ call[p].status = "ok"
                     /\ items = <<EntityOf(b.elements[1].members)>>
               /\ (/\ b.kind = "array"
                   /\ b.closed
                   /\ \A i \in 1 .. Len(b.elements) :
                         b.elements[i].kind = "object" /\ ValidObject(b.elements[i].members))
                  => /\ call[p].status = "ok"
                     /\ Len(items) = Len(b.elements)
                     /\ \A i \in 1 .. Len(items) :
                           /\ items[i].ID = FieldOf(b.elements[i].members, "id", items[i].ID)
                           /\ items[i].Name = FieldOf(b.elements[i].members, "name", items[i].Name)
                           /\ call[p].pre = <<>> => items[i] = EntityOf(b.elements[i].members)

\* an array of two different entities, after white space, decoded in its order
C12_Witness ==
    \E p \in Procs :
        /\ HasReturned(p, "UnmarshalJSON")
        /\ call[p].status = "ok"
        /\ call[p].req.kind = "array"
        /\ call[p].req.space
        /\ call[p].pre = <<>>
        /\ call[p].value = <<[ID |-> "a", Name |-> "", Deleted |-> FALSE],
                             [ID |-> "b", Name |-> "", Deleted |-> FALSE]>>

\* C13: for an empty input, null, and any input whose first token opens neither
\* an array nor an object, the decoder returns no error and leaves the
\* collection with zero items, whatever it held before.
C13_OtherInputIsEmpty ==
    \A p \in Procs :
        (HasReturned(p, "UnmarshalJSON") /\ call[p].req.kind \in {"empty", "null", "scalar", "stray"})
        => call[p].status = "ok" /\ call[p].value = <<>>

\* null decoded into a collection that held an item
C13_Witness ==
    \E p \in Procs :
        /\ HasReturned(p, "UnmarshalJSON")
        /\ call[p].req.kind = "null"
        /\ call[p].pre # <<>>
        /\ call[p].status = "ok"
        /\ call[p].value = <<>>

\* the request handler p answered carried malformed client input
Malformed(p) ==
    LET req == call[p].req
    IN  CASE call[p].op = "handlers.UpdateInstrumentNote" ->
                \/ req.param = "not-a-uuid"
                \/ ~BindStruct(ZeroProject, req.body).ok
                \/ /\ req.body.kind = "object"
                   /\ FieldOf(req.body.elements[1].members, "id", req.param) # req.param
          [] call[p].op = "handlers.CreateOrUpdateInstrumentStatus" ->
                req.param = "not-a-uuid" \/ ~BindCollection(req.body).ok
          [] call[p].op = "handlers.CreateInstrumentNote" ->
                ~BindCollection(req.body).ok
          [] OTHER -> FALSE

\* C14: a handler that receives a path identifier that is no UUID, a body that
\* fails to bind or, in UpdateInstrumentNote, a body id other than the URL
\* note_id, answers 400 and has made no data-access call: the tables are as
\* before, and models.CreateInstrumentNote runs only for a body that binds.
C14_MalformedInputIs400 ==
    \A p \in Procs :
        /\ (call[p].op # "idle" /\ call[p].pc = "returned" /\ Malformed(p))
           => /\ call[p].status = "400"
              /\ call[p].n = 0
              /\ db = call[p].pre
        /\ call[p].op = "CreateInstrumentNote" => BindCollection(call[p].req.body).ok

\* UpdateInstrumentNote answered 400 to a body that binds and names another
\* note than the URL, a note that exists
C14_Witness ==
    \E p \in Procs :
        /\ HasReturned(p, "handlers.UpdateInstrumentNote")
        /\ call[p].req.param = "a"
        /\ call[p].req.body.kind = "object"
        /\ call[p].req.body.closed
        /\ call[p].req.body.elements[1].members = <<[key |-> "id", val |-> "b"]>>
        /\ \E r \in db.instrument_note : r.id = "b"
        /\ call[p].status = "400"
        /\ call[p].n = 0

\* the operations that write several statements in one transaction
MultiStatementWrites ==
    {"CreateOrUpdateTimeseriesMeasurements", "UpdatePlotConfiguration",
     "CreatePlotConfiguration", "CreateProjectBulk"}

\* C15: whenever a multi-statement write operation has returned, the
\* transaction it began has been committed or rolled back (or was never begun):
\* none is left open.
C15_NoTransactionLeftOpen ==
    \A p \in Procs :
        (call[p].op \in MultiStatementWrites /\ call[p].pc = "returned")
        => call[p].txn \in {"none", "committed", "rolledback"}

\* the keys under which a batch holds several points
RepeatedKeys(mc) ==
    {k \in BatchKeys(mc) :
        \E i \in 1 .. Len(Points(mc)), j \in 1 .. Len(Points(mc)) :
            i < j /\ Key(Points(mc)[i]) = k /\ Key(Points(mc)[j]) = k}

\* C17: in every state, whatever batches have been and are being upserted, the
\* measurement table holds at most one row per (timeseries_id, time); and a
\* batch that holds several points under one key commits with the value of
\* the last of them in that row.
C17_OneRowPerKey ==
    /\ [](\A r1 \in db.timeseries_measurement, r2 \in db.timeseries_measurement :
             Key(r1) = Key(r2) => r1 = r2)
    /\ [][\A p \in Procs :
             CommitsUpsert(p)
             => \A k \in RepeatedKeys(call[p].req) :
                   \E r \in db'.timeseries_measurement :
                       Key(r) = k /\ r.value = LastValue(call[p].req, k)]_vars

\* a batch with two points of one key and different values has succeeded while
\* the other handler's batch was writing, and the key holds the second value
C17_Witness ==
    \E p \in Procs, q \in Procs :
        /\ HasReturned(p, "CreateOrUpdateTimeseriesMeasurements")
        /\ call[p].status = "ok"
        /\ RepeatedKeys(call[p].req) # {}
        /\ Points(call[p].req)[1].value # Points(call[p].req)[2].value
        /\ \A r \in db.timeseries_measurement :
              Key(r) = Key(Points(call[p].req)[2]) => r.value = Points(call[p].req)[2].value
        /\ Cardinality(db.timeseries_measurement) = 1
        /\ q # p
        /\ call[q].op = "CreateOrUpdateTimeseriesMeasurements"
        /\ call[q].pc = "exec"

\* handler p reads the measurements in this step
ReadsMeasurements(p) ==
    /\ call[p] = Idle
    /\ call'[p].op = "ListTimeseriesMeasurements"
    /\ call'[p].status = "ok"

\* C18: a ListTimeseriesMeasurements never returns part of a batch: every point
\* it returns is a committed row and every committed row of its series and
\* window is returned, also while a batch is being written; and the committed
\* rows change only when a batch commits, then by all of its points at once
\* (each key of the batch holds the batch's value, every other row is as before).
C18_NoPartialBatchRead ==
    [][/\ \A p \in Procs :
             ReadsMeasurements(p)
             => LET items == Range(call'[p].value.Items)
                    req == call'[p].req
                IN  /\ items \subseteq db.timeseries_measurement
                    /\ \A r \in db.timeseries_measurement :
                          (/\ r.timeseries_id = req.timeseriesID
                           /\ r.time > req.After
                           /\ r.time < req.Before) => r \in items
       /\ db'.timeseries_measurement # db.timeseries_measurement
          => \E p \in Procs :
                /\ CommitsUpsert(p)
                /\ \A k \in BatchKeys(call[p].req) :
                      RowsOfKey(db'.timeseries_measurement, k) =
                         {[timeseries_id |-> k[1], time |-> k[2],
                           value |-> LastValue(call[p].req, k)]}
                /\ {r \in db'.timeseries_measurement : Key(r) \notin BatchKeys(call[p].req)}
                      = {r \in db.timeseries_measurement : Key(r) \notin BatchKeys(call[p].req)}]_vars

\* a read over the whole window, made when the other handler's batch of two
\* points under two keys had written one of them, returned neither point
C18_Witness ==
    \E p \in Procs, q \in Procs :
        /\ HasReturned(p, "ListTimeseriesMeasurements")
        /\ call[p].status = "ok"
        /\ call[p].n = 1
        /\ call[p].req.After = 0
        /\ call[p].value.Items = <<>>
        /\ q # p
        /\ call[q].op = "CreateOrUpdateTimeseriesMeasurements"
        /\ call[q].pc # "returned"
        /\ Cardinality(BatchKeys(call[q].req)) = 2

\* the UpdatePlotConfiguration of handler p has committed
HasCommitted(p) ==
    /\ call[p].op = "UpdatePlotConfiguration"
    /\ \/ call[p].pc = "get"
       \/ call[p].pc = "returned" /\ call[p].txn = "committed"

\* C19: when the UpdatePlotConfiguration calls of both handlers, for the same
\* plot configuration and with desired sets D1 and D2, have committed, the
\* persisted associations of the plot configuration are D1 or D2 and neither
\* call failed at an insert.
C19_RacingReconcilesDoNotMix ==
    (/\ HasCommitted("h1")
     /\ HasCommitted("h2")
     /\ call["h1"].req.ID = call["h2"].req.ID)
    => Associated(db.plot_configuration_timeseries, call["h1"].req.ID)
          \in {Range(call["h1"].req.TimeseriesID), Range(call["h2"].req.TimeseriesID)}

\* the projects flagged as deleted in d
SoftDeleted(d) == {r.id : r \in {x \in d.project : x.deleted}}

\* C20: once DeleteFlagProject(id) has succeeded on a project, the project
\* stays flagged as deleted through every later step (UpdateProject,
\* CreateProjectBulk, DeleteFlagProject among them); no result of ListProjects
\* or ListMyProjects contains a flagged project, GetProjectCount does not count
\* one, and GetProject(id) still returns it.
C20_SoftDeletionIsPermanent ==
    /\ [](\A p \in Procs :
            /\ (HasReturned(p, "DeleteFlagProject") /\ call[p].status = "ok"
                   /\ \E r \in call[p].pre.project : r.id = call[p].req.id)
                => call[p].req.id \in SoftDeleted(db)
            /\ ((HasReturned(p, "ListProjects") \/ HasReturned(p, "ListMyProjects"))
                   /\ call[p].status = "ok")
                => \A i \in 1 .. Len(call[p].value) :
                      call[p].value[i].id \notin SoftDeleted(call[p].pre)
            /\ (HasReturned(p, "GetProjectCount") /\ call[p].status = "ok")
                => call[p].value = Cardinality({r.id : r \in call[p].pre.project}
                                                \ SoftDeleted(call[p].pre))
            /\ (HasReturned(p, "GetProject") /\ ~call[p].req.fault
                   /\ call[p].req.id \in SoftDeleted(call[p].pre))
                => /\ call[p].status = "ok"
                   /\ call[p].value.id = call[p].req.id
                   /\ call[p].value.deleted)
    /\ [][SoftDeleted(db) \subseteq SoftDeleted(db')]_vars

\* ListProjects has answered after p1 was flagged, renamed and a project was
\* created: it lists the other projects only
C20_Witness ==
    \E p \in Procs :
        /\ HasReturned(p, "ListProjects") /\ call[p].status = "ok"
        /\ SoftDeleted(call[p].pre) = {"p1"}
        /\ \E r \in call[p].pre.project : r.id = "p1" /\ r.name = "b"
        /\ \E r \in call[p].pre.project : r.id = "p3"
        /\ Len(call[p].value) = 2

\* the bulk create of handler p has returned because one of its inserts failed
FailedInsert(p) ==
    /\ call[p].op \in BulkCreates
    /\ call[p].pc = "returned"
    /\ call[p].at \in {"get", "exec", "flush"}

\* the number of rows the batch of the bulk create c consists of
BatchSize(c) ==
    CASE c.op = "CreateInstrumentNote" -> Len(c.req.notes)
      [] c.op = "CreatePlotConfiguration" -> 1 + Len(c.req.TimeseriesID)
      [] OTHER -> Len(c.req)

\* table e holds a row that table d does not: a row with another id or
\* another association
AddsRows(d, e) ==
    \/ \E t \in {"project", "instrument_group", "instrument_note", "plot_configuration"} :
          \E r \in e[t] : \A x \in d[t] : x.id # r.id
    \/ \E a \in e.plot_configuration_timeseries : a \notin d.plot_configuration_timeseries

\* C16: when the insert of a row fails in CreateProjectBulk,
\* CreateInstrumentGroup, CreateInstrumentNote or CreatePlotConfiguration, the
\* operation returns an error with the tables as they were before the batch,
\* and no later step persists rows of it: rows are added to the tables only
\* when a bulk create whose inserts have all succeeded commits.
C16_FailedBatchPersistsNothing ==
    /\ [](\A p \in Procs :
            FailedInsert(p) => /\ call[p].status # "ok"
                               /\ call[p].txn # "committed"
                               /\ db = call[p].pre)
    /\ [][AddsRows(db, db') =>
             \E p \in Procs :
                 /\ call[p].op \in BulkCreates
                 /\ call[p].pc = "commit"
                 /\ call[p].n = BatchSize(call[p])
                 /\ db' = Committed(db, call[p].txn)]_vars

\* CreateProjectBulk has returned the error of its second insert, after its
\* first insert succeeded, without a rollback: no project has been created
C16_Witness ==
    \E p \in Procs :
        /\ FailedInsert(p)
        /\ call[p].op = "CreateProjectBulk"
        /\ call[p].status = "error"
        /\ call[p].n = 1
        /\ call[p].txn = "open"
        /\ \A r \in db.project : r.id \notin {"p3", "p4"}
\* the tables other than project_timeseries are in d as they are in e
SameOtherTables(d, e) == \A t \in Tables \ {"project_timeseries"} : d[t] = e[t]

\* C21: CreateProjectTimeseries for a pair that is already promoted succeeds
\* and changes nothing, and after any successful promotion the pair has
\* exactly one association row; a successful DeleteProjectTimeseries removes
\* the rows of its pair only, and both leave the timeseries, every other table
\* and the associations of every other pair as they were.
C21_PromotionIdempotent ==
    \A p \in Procs :
        LET c == call[p]
            before == c.pre.project_timeseries
            after == db.project_timeseries
            mine == RowsOfPair(after, c.req.projectID, c.req.timeseriesID)
        IN  /\ (HasReturned(p, "CreateProjectTimeseries") /\ ~c.req.fault)
               => /\ c.status = "ok"
                  /\ Cardinality(mine) = 1
                  /\ after \ mine = before \ RowsOfPair(before, c.req.projectID,
                                                         c.req.timeseriesID)
                  /\ RowsOfPair(before, c.req.projectID, c.req.timeseriesID) # {}
                     => db = c.pre
                  /\ SameOtherTables(db, c.pre)
            /\ (HasReturned(p, "DeleteProjectTimeseries") /\ ~c.req.fault)
               => /\ c.status = "ok"
                  /\ mine = {}
                  /\ after = before \ RowsOfPair(before, c.req.projectID,
                                                 c.req.timeseriesID)
                  /\ SameOtherTables(db, c.pre)

\* the pair (p1, ts1) has been promoted again while it and another pair of
\* the same timeseries were promoted
C21_Witness ==
    \E p \in Procs :
        /\ HasReturned(p, "CreateProjectTimeseries")
        /\ call[p].status = "ok"
        /\ call[p].req.projectID = "p1" /\ call[p].req.timeseriesID = "ts1"
        /\ RowsOfPair(call[p].pre.project_timeseries, "p1", "ts1") # {}
        /\ RowsOfPair(call[p].pre.project_timeseries, "p2", "ts1") # {}
        /\ db = call[p].pre
====
